---- MODULE Spec2Model ----
(***************************************************************************)
(* Cyberpunk-2077-API: the wiki scraper (src/scraper/scraper.py), the      *)
(* catalog generator (src/gerador.py) and the record editor                *)
(* (src/editor/server.py), as state machines.                              *)
(*                                                                         *)
(*   SpecFetch   the request cache and the three fetch functions           *)
(*   SpecGender  gender detection of a character page (pure function)      *)
(*   Spec        scraper and generator runs while the wiki changes         *)
(*   SpecOverride  scraper and generator runs between manual edits         *)
(*   SpecUrl     image URL canonicalization (pure function)                *)
(*   SpecEditor  update requests to the editing service                    *)
(*   SpecWrite   a catalog file while it is written and read               *)
(*   SpecFailures  scrape runs in which fetches fail                       *)
(*   SpecCorrupt   scraper and generator runs on corrupted files           *)
(*   SpecImages    image discovery in a page (pure functions)              *)
(*   SpecConcurrent  two update requests in flight at the same time        *)
(*                                                                         *)
(* Python values: None is the string "None"; a dict is a TLA+ function     *)
(* whose DOMAIN is the dict's key set; text handled character by character *)
(* is a sequence of one-character strings.                                 *)
(***************************************************************************)
EXTENDS Integers, Sequences, FiniteSets, TLC

VARIABLES
  cache,     \* scraper/cache: file name -> stored payload, or NoFile
  fetch,     \* the fetch call in progress (or the last one finished)
  ncalls,    \* fetch calls started so far
  gpage,     \* the character page gender detection is run on
  gender,    \* the detected gender, None before detection
  wiki,      \* the wiki's current character page
  tree,      \* images/: entity directory path -> its info.json and files
  catalogs,  \* docs/api/v1: category -> the generated catalog file
  edits,     \* manual changes made to the images tree so far
  rerun,     \* history: progress of two pipeline runs in a row
  canon,     \* an image URL and what the canonicalizer made of it
  reply,     \* the editing service's answer to the last update request
  nupdates,  \* update requests made to the editing service so far
  scanned,   \* history: the lists the generator run just completed computed
  disk,      \* one catalog file as it is on disk: its text so far
  save,      \* the save_json that is writing the file
  loaded,    \* what the last load_json of the file returned
  ran,       \* history: the category, options and failed pages of the last scrape run
  discovery, \* a document and the image URLs discovery found in it
  requests   \* the editing service's requests in flight

fetchVars == <<cache, fetch, ncalls>>

genderVars == <<gpage, gender>>

pipeVars == <<wiki, tree, catalogs, edits, rerun>>

editorVars == <<reply, nupdates>>

vars ==
  <<cache, fetch, ncalls, gpage, gender, wiki, tree, catalogs, edits, rerun, canon,
    reply, nupdates, scanned, disk, save, loaded, ran, discovery, requests>>

writeVars == <<disk, save, loaded>>

None == "None"

NoFile == "NoFile"

(***************************************************************************)
(* Request cache and fetcher                                               *)
(***************************************************************************)

\* Bound: fetch calls in one behaviour.
MaxCalls == 3

\* The three fetch functions; each writes its own file names in scraper/cache.
FetchKinds == {"api", "gang_page", "district_page"}

\* Request keys: md5 of str(params) or of the URL, taken as the identity of
\* the request.
Keys == {"k1", "k2"}

\* What a successful network request can carry; "" is an empty body.
Payloads == {"", "p1", "p2"}

\* f"{cache_key}.json", f"gang_page_{cache_key}.html",
\* f"district_page_{cache_key}.html"
CacheFile(kind, key) == <<kind, key>>

CacheFiles == FetchKinds \X Keys

\* cache_file.exists()
CacheExists(c, file) == c[file] # NoFile

\* json.loads(cache_file.read_text()) / cache_file.read_text(): a file holds
\* what write_text put there; anything else fails to read (the bare except).
CacheReadable(c, file) == c[file] \in Payloads

\* cache_file.write_text(...)
CacheWrite(c, file, payload) == [c EXCEPT ![file] = payload]

Returned(v) == [type |-> "return", value |-> v]

Pending == [type |-> "pending", value |-> None]

IdleCall ==
  [pc |-> "idle", kind |-> "api", key |-> "k1", use_cache |-> TRUE,
   log |-> <<>>, outcome |-> Pending, before |-> [f \in CacheFiles |-> NoFile],
   net_failed |-> FALSE]

FetchIdle ==
  /\ cache = [f \in CacheFiles |-> NoFile]
  /\ fetch = IdleCall
  /\ ncalls = 0

\* A caller enters _api_request / _fetch_page. use_cache is the scraper's
\* self.use_cache (every caller of _api_request passes use_cache=True).
FetchBegin(kind, key, uc) ==
  /\ fetch.pc \in {"idle", "done"}
  /\ ncalls < MaxCalls
  /\ ncalls' = ncalls + 1
  /\ fetch' = [pc |-> "check", kind |-> kind, key |-> key, use_cache |-> uc,
               log |-> <<>>, outcome |-> Pending, before |-> cache,
               net_failed |-> FALSE]
  /\ UNCHANGED cache

\* if self.use_cache and cache_file.exists(): try: return read  except: pass
CacheLookup ==
  /\ fetch.pc = "check"
  /\ LET file == CacheFile(fetch.kind, fetch.key) IN
       IF fetch.use_cache /\ CacheExists(cache, file) /\ CacheReadable(cache, file)
         THEN fetch' = [fetch EXCEPT !.pc = "done", !.outcome = Returned(cache[file])]
         ELSE fetch' = [fetch EXCEPT !.pc = "sleep"]
  /\ UNCHANGED <<cache, ncalls>>

\* Mutant of RateLimitDelay: the request goes out with no sleep before it.
RateLimitDelay_Skipped ==
  /\ fetch.pc = "sleep"
  /\ fetch' = [fetch EXCEPT !.pc = "request"]
  /\ UNCHANGED <<cache, ncalls>>

\* time.sleep(self.REQUEST_DELAY)
RateLimitDelay ==
  /\ fetch.pc = "sleep"
  /\ fetch' = [fetch EXCEPT !.pc = "request", !.log = Append(@, "delay")]
  /\ UNCHANGED <<cache, ncalls>>

\* Mutant of StoreAndReturn: the payload is returned and never persisted.
StoreAndReturn_NoWrite(payload) ==
  /\ fetch' = [fetch EXCEPT !.pc = "done", !.log = Append(@, "net"),
                            !.outcome = Returned(payload)]
  /\ cache' = cache

\* What the call does once session.get has answered with payload.
StoreAndReturn(payload) ==
  /\ fetch' = [fetch EXCEPT !.pc = "done", !.log = Append(@, "net"),
                            !.outcome = Returned(payload)]
  /\ cache' = IF fetch.use_cache
                THEN CacheWrite(cache, CacheFile(fetch.kind, fetch.key), payload)
                ELSE cache

\* session.get(...); raise_for_status(); response.json() / response.text
NetworkSuccess(payload) ==
  /\ fetch.pc = "request"
  /\ StoreAndReturn(payload)
  /\ UNCHANGED ncalls

\* Mutant of FailureOutcome: the failed request leaves an empty cache file.
FailureOutcome_EmptyFile ==
  /\ fetch' = [fetch EXCEPT !.pc = "done", !.log = Append(@, "net"),
                            !.outcome = Returned(None), !.net_failed = TRUE]
  /\ cache' = IF fetch.use_cache
                THEN CacheWrite(cache, CacheFile(fetch.kind, fetch.key), "")
                ELSE cache

\* What the call does once session.get, raise_for_status or response.json
\* has raised: except Exception: return None
FailureOutcome ==
  /\ fetch' = [fetch EXCEPT !.pc = "done", !.log = Append(@, "net"),
                            !.outcome = Returned(None), !.net_failed = TRUE]
  /\ UNCHANGED cache

NetworkFailure ==
  /\ fetch.pc = "request"
  /\ FailureOutcome
  /\ UNCHANGED ncalls

NextFetchCall ==
  \/ \E kind \in FetchKinds, key \in Keys, uc \in BOOLEAN : FetchBegin(kind, key, uc)
  \/ CacheLookup
  \/ RateLimitDelay
  \/ \E payload \in Payloads : NetworkSuccess(payload)
  \/ NetworkFailure

\* Events of kind e among the first n events of a call's log.
RECURSIVE CountEvents(_, _, _)
CountEvents(log, e, n) ==
  IF n = 0 THEN 0
  ELSE CountEvents(log, e, n - 1) + (IF log[n] = e THEN 1 ELSE 0)

FetchedFile == CacheFile(fetch.kind, fetch.key)

C1_CallContract ==
  (fetch.pc = "done" /\ fetch.use_cache) =>
     IF fetch.before[FetchedFile] # NoFile
       THEN /\ fetch.outcome = Returned(fetch.before[FetchedFile])
            /\ CountEvents(fetch.log, "net", Len(fetch.log)) = 0
            /\ cache = fetch.before
       ELSE /\ CountEvents(fetch.log, "net", Len(fetch.log)) = 1
            /\ (~fetch.net_failed =>
                  /\ fetch.outcome.value \in Payloads
                  /\ cache[FetchedFile] = fetch.outcome.value)

C1_EntriesStay ==
  \A file \in CacheFiles : cache[file] # NoFile => cache'[file] = cache[file]

\* C1: with caching enabled, a fetch of a key that has a cache entry returns
\* the stored payload with no network request; a fetch of a key with no entry
\* issues exactly one network request and on success stores the payload under
\* the key; a stored entry never changes, so every later fetch of the key is a
\* hit that returns the same payload.
C1_CacheHitAndFill == [](C1_CallContract) /\ [][C1_EntriesStay]_vars

\* A second fetch of a key, served from the entry an earlier fetch stored.
C1_Witness ==
  /\ fetch.pc = "done" /\ fetch.use_cache /\ ncalls >= 2
  /\ fetch.before[FetchedFile] = "p2"
  /\ fetch.outcome = Returned("p2")
  /\ fetch.log = <<>>

\* C2: a fetch whose network request fails returns None (it does not raise)
\* and leaves every cache file exactly as it was when the call began.
C2_FailureLeavesCache ==
  (fetch.pc = "done" /\ fetch.net_failed) =>
     /\ fetch.outcome = Returned(None)
     /\ cache = fetch.before

\* A failed fetch, with caching on, while another key's entry is in the cache.
C2_Witness ==
  /\ fetch.pc = "done" /\ fetch.net_failed /\ fetch.use_cache
  /\ \E file \in CacheFiles : cache[file] # NoFile

\* C3: within a fetch call every network request comes directly after the
\* call's one and only rate-limit delay, and a call served from the cache
\* performs no delay.
C3_DelayBeforeRequest ==
  /\ \A i \in DOMAIN fetch.log :
       fetch.log[i] = "net" =>
         /\ i > 1 /\ fetch.log[i - 1] = "delay"
         /\ CountEvents(fetch.log, "delay", i - 1) = 1
  /\ (fetch.pc = "done" /\ CountEvents(fetch.log, "net", Len(fetch.log)) = 0)
        => fetch.log = <<>>

\* A call that slept once and then issued its request.
C3_Witness == fetch.pc = "done" /\ fetch.log = <<"delay", "net">>

(***************************************************************************)
(* Text, character by character                                            *)
(***************************************************************************)

UpperCase == <<"A", "B", "C", "D", "E", "F", "G", "H", "I", "J", "K", "L", "M",
               "N", "O", "P", "Q", "R", "S", "T", "U", "V", "W", "X", "Y", "Z">>

LowerCase == <<"a", "b", "c", "d", "e", "f", "g", "h", "i", "j", "k", "l", "m",
               "n", "o", "p", "q", "r", "s", "t", "u", "v", "w", "x", "y", "z">>

LowerChar(c) ==
  IF \E i \in DOMAIN UpperCase : UpperCase[i] = c
    THEN LowerCase[CHOOSE i \in DOMAIN UpperCase : UpperCase[i] = c]
    ELSE c

\* str.lower()
Lower(s) == <<>> \o [i \in 1..Len(s) |-> LowerChar(s[i])]

\* s[i:i+len(sub)] == sub
MatchAt(s, sub, i) ==
  /\ i + Len(sub) - 1 <= Len(s)
  /\ \A j \in 1..Len(sub) : s[i + j - 1] = sub[j]

\* sub in s
Contains(s, sub) == \E i \in 1..(Len(s) + 1) : MatchAt(s, sub, i)

\* s.count(sub) from position i on: occurrences that do not overlap, left to
\* right.
RECURSIVE CountFrom(_, _, _)
CountFrom(s, sub, i) ==
  IF i + Len(sub) - 1 > Len(s) THEN 0
  ELSE IF MatchAt(s, sub, i) THEN 1 + CountFrom(s, sub, i + Len(sub))
  ELSE CountFrom(s, sub, i + 1)

\* s.count(sub)
Count(s, sub) == CountFrom(s, sub, 1)

\* " ".join(words)
RECURSIVE JoinWords(_)
JoinWords(words) ==
  IF words = <<>> THEN <<>>
  ELSE IF Len(words) = 1 THEN words[1]
  ELSE words[1] \o <<" ">> \o JoinWords(Tail(words))


(***************************************************************************)
(* Gender detection: CyberpunkScraper._parse_infobox, _detect_gender       *)
(***************************************************************************)

\* CyberpunkScraper.KNOWN_FEMALES
KNOWN_FEMALES ==
  { <<"j", "u", "d", "y", " ", "a", "l", "v", "a", "r", "e", "z">>,
    <<"p", "a", "n", "a", "m", " ", "p", "a", "l", "m", "e", "r">>,
    <<"a", "l", "t", " ", "c", "u", "n", "n", "i", "n", "g", "h", "a", "m">>,
    <<"r", "o", "g", "u", "e", " ", "a", "m", "e", "n", "d", "i", "a", "r", "e", "s">>,
    <<"e", "v", "e", "l", "y", "n", " ", "p", "a", "r", "k", "e", "r">>,
    <<"m", "i", "s", "t", "y", " ", "o", "l", "s", "z", "e", "w", "s", "k", "i">>,
    <<"c", "l", "a", "i", "r", "e", " ", "r", "u", "s", "s", "e", "l", "l">>,
    <<"h", "a", "n", "a", "k", "o", " ", "a", "r", "a", "s", "a", "k", "a">>,
    <<"r", "e", "g", "i", "n", "a", " ", "j", "o", "n", "e", "s">>,
    <<"m", "e", "r", "e", "d", "i", "t", "h", " ", "s", "t", "o", "u", "t">>,
    <<"b", "l", "u", "e", " ", "m", "o", "o", "n">>,
    <<"l", "i", "z", "z", "y", " ", "w", "i", "z", "z", "y">>,
    <<"s", "o", "n", "g", "b", "i", "r", "d">>,
    <<"a", "l", "e", "x">>,
    <<"a", "l", "e", "n", "a", " ", "x", "e", "n", "a", "k", "i", "s">>,
    <<"a", "n", "a", " ", "f", "r", "i", "e", "d", "m", "a", "n">>,
    <<"r", "i", "t", "a", " ", "w", "h", "e", "e", "l", "e", "r">>,
    <<"s", "a", "n", "d", "r", "a", " ", "d", "o", "r", "s", "e", "t", "t">>,
    <<"y", "o", "r", "i", "n", "o", "b", "u">>,
    <<"m", "i", "c", "h", "i", "k", "o", " ", "a", "r", "a", "s", "a", "k", "a">>,
    <<"t", "-", "b", "u", "g">> }

\* fields['gender'] of _parse_infobox and the selectors of _detect_gender
GenderSources == <<"gender", "sex", "Gender", "Sex">>

\* infobox.select_one('[data-source="<source>"] .pi-data-value'), then
\* get_text(strip=True): <<text>> for the first row of that source, <<>> when
\* there is none. An infobox is [present, rows]; a row is [source, label, value].
SelectValue(infobox, source) ==
  IF \E i \in DOMAIN infobox.rows : infobox.rows[i].source = source
    THEN LET i == CHOOSE i \in DOMAIN infobox.rows :
                    /\ infobox.rows[i].source = source
                    /\ \A j \in 1..(i - 1) : infobox.rows[j].source # source
         IN <<infobox.rows[i].value>>
    ELSE <<>>

\* Mutant of NormalizeGenderValue: 'male' tested before 'female'.
NormalizeGenderValue_MaleFirst(value) ==
  IF Contains(Lower(value), <<"m", "a", "l", "e">>) THEN "Male"
  ELSE IF \/ Contains(Lower(value), <<"f", "e", "m", "a", "l", "e">>)
          \/ Contains(Lower(value), <<"w", "o", "m", "a", "n">>) THEN "Female"
  ELSE None

\* _parse_infobox, key == 'gender': the value kept for a non-empty text
NormalizeGenderValue(value) ==
  IF \/ Contains(Lower(value), <<"f", "e", "m", "a", "l", "e">>)
     \/ Contains(Lower(value), <<"w", "o", "m", "a", "n">>) THEN "Female"
  ELSE IF Contains(Lower(value), <<"m", "a", "l", "e">>) THEN "Male"
  ELSE None

\* _parse_infobox, the loop over fields['gender'] from source number i on: the
\* first source whose element has non-empty text decides (break), also when
\* its text normalizes to None. The result is data.get('gender').
RECURSIVE ParseInfoboxGenderFrom(_, _)
ParseInfoboxGenderFrom(infobox, i) ==
  IF i > Len(GenderSources) THEN None
  ELSE LET elem == SelectValue(infobox, GenderSources[i]) IN
       IF elem # <<>> /\ elem[1] # <<>>
         THEN NormalizeGenderValue(elem[1])
         ELSE ParseInfoboxGenderFrom(infobox, i + 1)

\* scrape_character: result['gender'] after result.update(_parse_infobox(..))
ParseInfoboxGender(infobox) ==
  IF infobox.present THEN ParseInfoboxGenderFrom(infobox, 1) ELSE None

\* _detect_gender, 1: the gender already taken from the infobox
GenderStep1(char_data) ==
  IF char_data.gender \in {"Male", "Female"} THEN char_data.gender ELSE None

\* _detect_gender, 2: the title is, contains or is contained in a known name
GenderStep2(title) ==
  IF \/ Lower(title) \in KNOWN_FEMALES
     \/ \E known \in KNOWN_FEMALES :
          Contains(Lower(title), known) \/ Contains(known, Lower(title))
    THEN "Female" ELSE None

\* _detect_gender, 3, first loop: the four selectors in order
RECURSIVE GenderStep3Selectors(_, _)
GenderStep3Selectors(infobox, i) ==
  IF i > Len(GenderSources) THEN None
  ELSE LET elem == SelectValue(infobox, GenderSources[i])
           text == Lower(elem[1])
       IN IF elem = <<>> THEN GenderStep3Selectors(infobox, i + 1)
          ELSE IF \/ Contains(text, <<"f", "e", "m", "a", "l", "e">>)
                  \/ Contains(text, <<"w", "o", "m", "a", "n">>)
                  \/ Contains(text, <<"f", "e", "m", "i", "n", "i", "n", "o">>)
            THEN "Female"
          ELSE IF \/ Contains(text, <<"m", "a", "l", "e">>)
                  \/ (Contains(text, <<"m", "a", "n">>)
                        /\ ~Contains(text, <<"w", "o", "m", "a", "n">>))
                  \/ Contains(text, <<"m", "a", "s", "c", "u", "l", "i", "n", "o">>)
            THEN "Male"
          ELSE GenderStep3Selectors(infobox, i + 1)

\* _detect_gender, 3, second loop: rows whose label mentions gender or sex
RECURSIVE GenderStep3Rows(_, _)
GenderStep3Rows(infobox, i) ==
  IF i > Len(infobox.rows) THEN None
  ELSE LET label == Lower(infobox.rows[i].label)
           value == Lower(infobox.rows[i].value)
       IN IF ~(Contains(label, <<"g", "e", "n", "d", "e", "r">>)
                 \/ Contains(label, <<"s", "e", "x">>))
            THEN GenderStep3Rows(infobox, i + 1)
          ELSE IF \/ Contains(value, <<"f", "e", "m", "a", "l", "e">>)
                  \/ Contains(value, <<"w", "o", "m", "a", "n">>) THEN "Female"
          ELSE IF \/ Contains(value, <<"m", "a", "l", "e">>)
                  \/ Contains(value, <<"m", "a", "n">>) THEN "Male"
          ELSE GenderStep3Rows(infobox, i + 1)

\* _detect_gender, 3: soup.select_one('.portable-infobox') and the two loops
GenderStep3(soup_infobox) ==
  IF ~soup_infobox.present THEN None
  ELSE IF GenderStep3Selectors(soup_infobox, 1) # None
    THEN GenderStep3Selectors(soup_infobox, 1)
  ELSE GenderStep3Rows(soup_infobox, 1)

\* female_pronouns: count(' she ') + count(' her ') + count(' herself ')
FemalePronouns(desc_lower) ==
  Count(desc_lower, <<" ", "s", "h", "e", " ">>)
  + Count(desc_lower, <<" ", "h", "e", "r", " ">>)
  + Count(desc_lower, <<" ", "h", "e", "r", "s", "e", "l", "f", " ">>)

\* male_pronouns: count(' he ') + count(' him ') + count(' himself ') + count(' his ')
MalePronouns(desc_lower) ==
  Count(desc_lower, <<" ", "h", "e", " ">>)
  + Count(desc_lower, <<" ", "h", "i", "m", " ">>)
  + Count(desc_lower, <<" ", "h", "i", "m", "s", "e", "l", "f", " ">>)
  + Count(desc_lower, <<" ", "h", "i", "s", " ">>)

\* Mutant of PronounDecision: one pronoun is evidence enough.
PronounDecision_NoThreshold(female_pronouns, male_pronouns) ==
  IF female_pronouns > male_pronouns THEN "Female"
  ELSE IF male_pronouns > female_pronouns THEN "Male"
  ELSE None

\* _detect_gender, 4: the comparison of the two counts
PronounDecision(female_pronouns, male_pronouns) ==
  IF female_pronouns > male_pronouns /\ female_pronouns >= 2 THEN "Female"
  ELSE IF male_pronouns > female_pronouns /\ male_pronouns >= 2 THEN "Male"
  ELSE None

\* _detect_gender, 4
GenderStep4(desc_lower) ==
  PronounDecision(FemalePronouns(desc_lower), MalePronouns(desc_lower))

FemalePhrase(desc_lower) ==
  \/ Contains(desc_lower, <<"g", "r", "a", "n", "d", "m", "o", "t", "h", "e", "r">>)
  \/ Contains(desc_lower, <<"m", "o", "t", "h", "e", "r", " ", "o", "f">>)
  \/ Contains(desc_lower, <<"w", "i", "f", "e", " ", "o", "f">>)

MalePhrase(desc_lower) ==
  \/ Contains(desc_lower, <<"g", "r", "a", "n", "d", "f", "a", "t", "h", "e", "r">>)
  \/ Contains(desc_lower, <<"f", "a", "t", "h", "e", "r", " ", "o", "f">>)
  \/ Contains(desc_lower, <<"h", "u", "s", "b", "a", "n", "d", " ", "o", "f">>)

\* _detect_gender, 5
GenderStep5(desc_lower) ==
  IF FemalePhrase(desc_lower) THEN "Female"
  ELSE IF MalePhrase(desc_lower) THEN "Male"
  ELSE None

\* _detect_gender(char_data, soup, title). char_data.description is the text
\* of the description, <<>> for None (desc = char_data.get(..) or '').
DetectGender(char_data, soup_infobox, title) ==
  LET desc_lower == Lower(char_data.description) IN
  IF GenderStep1(char_data) # None THEN GenderStep1(char_data)
  ELSE IF GenderStep2(title) # None THEN GenderStep2(title)
  ELSE IF GenderStep3(soup_infobox) # None THEN GenderStep3(soup_infobox)
  ELSE IF GenderStep4(desc_lower) # None THEN GenderStep4(desc_lower)
  ELSE IF GenderStep5(desc_lower) # None THEN GenderStep5(desc_lower)
  ELSE "Unknown"

\* _extract_description decomposes every .portable-infobox of the soup before
\* _detect_gender runs: the soup it is given has no infobox left.
DecomposedInfobox == [present |-> FALSE, rows |-> <<>>]

\* scrape_character, the gender of the result: the infobox is parsed, the
\* description extracted (which strips the infobox from the soup), then
\* _detect_gender runs on the result so far.
ScrapeGender(page) ==
  DetectGender([gender |-> ParseInfoboxGender(page.infobox),
                description |-> page.description],
               DecomposedInfobox, page.title)

\* Bound: words of a generated description.
MaxDescWords == 5

DescWords == { <<"x">>, <<"s", "h", "e">>, <<"h", "e", "r">>, <<"h", "e">> }

GeneratedDescs ==
  { JoinWords(ws) : ws \in UNION { [1..n -> DescWords] : n \in 0..MaxDescWords } }

PhraseDescs ==
  { <<"S", "h", "e", " ", "x", " ", "S", "h", "e", " ", "x">>,
    <<"x", " ", "m", "o", "t", "h", "e", "r", " ", "o", "f", " ", "x">>,
    <<"g", "r", "a", "n", "d", "f", "a", "t", "h", "e", "r">>,
    <<"x", " ", "s", "h", "e", " ", "x", " ", "w", "i", "f", "e", " ", "o", "f", " ", "x">>,
    <<"x", " ", "h", "e", " ", "h", "i", "s", " ", "x", " ", "s", "h", "e", " ", "h", "e", "r", " ", "x">>,
    <<"x", " ", "h", "i", "m", " ", "x", " ", "h", "i", "m", "s", "e", "l", "f", " ", "x">>,
    <<"x", " ", "h", "e", "r", "s", "e", "l", "f", " ", "x", " ", "h", "e", "r", " ", "x">>,
    <<"x", " ", "s", "h", "e", " ", "s", "h", "e", " ", "x">>,
    <<"x", " ", "h", "u", "s", "b", "a", "n", "d", " ", "o", "f", " ", "x", " ", "h", "e", "r", " ", "x", " ", "s", "h", "e", " ", "x">> }

KeyDescs ==
  { <<>>, <<"x", " ", "h", "e", " ", "x", " ", "h", "i", "s", " ", "x">>,
    <<"x", " ", "s", "h", "e", " ", "x">>,
    <<"x", " ", "s", "h", "e", " ", "h", "e", "r", " ", "x">>,
    <<"S", "h", "e", " ", "x", " ", "S", "h", "e", " ", "x">>,
    <<"x", " ", "m", "o", "t", "h", "e", "r", " ", "o", "f", " ", "x">> }

PageTitles ==
  { <<"J", "u", "d", "y", " ", "A", "l", "v", "a", "r", "e", "z">>,
    <<"A", "l">>,
    <<"J", "a", "c", "k", "i", "e", " ", "W", "e", "l", "l", "e", "s">> }

GenderTexts ==
  { <<>>,
    <<"F", "e", "m", "a", "l", "e">>,
    <<"M", "a", "l", "e">>,
    <<"W", "o", "m", "a", "n">>,
    <<"M", "a", "n">>,
    <<"F", "e", "m", "i", "n", "i", "n", "o">> }

InfoRow(source, value) ==
  [source |-> source,
   label |-> IF source \in {"gender", "Gender"}
               THEN <<"G", "e", "n", "d", "e", "r">> ELSE <<"S", "e", "x">>,
   value |-> value]

InfoRows == { InfoRow(s, v) : s \in {"gender", "sex"}, v \in GenderTexts }

NoInfobox == [present |-> FALSE, rows |-> <<>>]

Infoboxes ==
  {NoInfobox}
  \cup { [present |-> TRUE, rows |-> rows] :
           rows \in {<<>>} \cup { <<r>> : r \in InfoRows }
                    \cup { rr \in InfoRows \X InfoRows : rr[1].source # rr[2].source } }

KeyInfoboxes ==
  { NoInfobox,
    [present |-> TRUE, rows |-> <<InfoRow("sex", <<"M", "a", "n">>)>>],
    [present |-> TRUE, rows |-> <<InfoRow("gender", <<>>)>>] }

\* The pages gender detection is run on.
GenderPages ==
  { [title |-> t, infobox |-> b, description |-> d] :
      t \in PageTitles, b \in Infoboxes, d \in KeyDescs }
  \cup { [title |-> t, infobox |-> b, description |-> d] :
      t \in PageTitles, b \in KeyInfoboxes, d \in GeneratedDescs \cup PhraseDescs }

NoPage == [title |-> <<>>, infobox |-> NoInfobox, description |-> <<>>]

InitGender ==
  /\ gpage \in GenderPages
  /\ gender = None

\* scrape_character up to result['gender'] = self._detect_gender(..)
DetectGenderOfPage ==
  /\ gender = None
  /\ gender' = ScrapeGender(gpage)
  /\ UNCHANGED gpage

\* The gender _parse_infobox took from the page, as _detect_gender sees it.
InfoboxGender == ParseInfoboxGender(gpage.infobox)

\* Source number i is the first of gender, sex, Gender, Sex with non-empty text.
DecidingSource(infobox, i) ==
  /\ SelectValue(infobox, GenderSources[i]) \notin {<<>>, << <<>> >>}
  /\ \A j \in 1..(i - 1) : SelectValue(infobox, GenderSources[j]) \in {<<>>, << <<>> >>}

HasFemaleField(infobox) ==
  \E i \in DOMAIN infobox.rows :
    /\ infobox.rows[i].source \in {"gender", "sex"}
    /\ infobox.rows[i].value = <<"F", "e", "m", "a", "l", "e">>

\* C9 as stated: a page whose infobox has a gender or sex field with value
\* Female is detected as Female, whatever its description.
C9_AnyFemaleField ==
  (gender # None /\ gpage.infobox.present /\ HasFemaleField(gpage.infobox))
     => gender = "Female"

\* C9 (amended): a page is detected as Female, whatever the pronoun counts of
\* its description, when the first of the infobox fields gender, sex, Gender,
\* Sex that has non-empty text has the value Female.
C9_DecidingFemaleField ==
  (/\ gender # None
   /\ gpage.infobox.present
   /\ \E i \in DOMAIN GenderSources :
        /\ DecidingSource(gpage.infobox, i)
        /\ SelectValue(gpage.infobox, GenderSources[i]) = << <<"F", "e", "m", "a", "l", "e">> >>)
     => gender = "Female"

\* sex = Female in the infobox of a page whose title is no known name and
\* whose description has two male pronouns and no female one.
C9_Witness ==
  /\ gender = "Female"
  /\ gpage.infobox.present
  /\ DecidingSource(gpage.infobox, 2)
  /\ SelectValue(gpage.infobox, "sex") = << <<"F", "e", "m", "a", "l", "e">> >>
  /\ GenderStep2(gpage.title) = None
  /\ MalePronouns(Lower(gpage.description)) >= 2
  /\ FemalePronouns(Lower(gpage.description)) = 0

\* Positions of text where word stands as a whole space-separated token.
TokenPositions(text, word) ==
  { i \in 1..Len(text) :
      /\ MatchAt(text, word, i)
      /\ (i = 1 \/ text[i - 1] = " ")
      /\ (i + Len(word) > Len(text) \/ text[i + Len(word)] = " ") }

FemaleTokens(text) ==
  Cardinality(TokenPositions(text, <<"s", "h", "e">>))
  + Cardinality(TokenPositions(text, <<"h", "e", "r">>))
  + Cardinality(TokenPositions(text, <<"h", "e", "r", "s", "e", "l", "f">>))

MaleTokens(text) ==
  Cardinality(TokenPositions(text, <<"h", "e">>))
  + Cardinality(TokenPositions(text, <<"h", "i", "m">>))
  + Cardinality(TokenPositions(text, <<"h", "i", "m", "s", "e", "l", "f">>))
  + Cardinality(TokenPositions(text, <<"h", "i", "s">>))

NoEarlierGender ==
  /\ InfoboxGender \notin {"Male", "Female"}
  /\ GenderStep2(gpage.title) = None

C10_WitnessUnknown ==
  /\ gender = "Unknown" /\ NoEarlierGender
  /\ FemaleTokens(Lower(gpage.description)) = 1
  /\ FemalePronouns(Lower(gpage.description)) = 1
  /\ MaleTokens(Lower(gpage.description)) = 0

(***************************************************************************)
(* Names, slugs and file names                                             *)
(***************************************************************************)

\* The spelling of every text the catalog model converts or compares.
Spelling ==
  { <<"Jo Li", <<"J", "o", " ", "L", "i">>>>,
    <<"Jo Le", <<"J", "o", " ", "L", "e">>>>,
    <<"jo_li", <<"j", "o", "_", "l", "i">>>>,
    <<"jo_le", <<"j", "o", "_", "l", "e">>>>,
    <<"Moxes", <<"M", "o", "x", "e", "s">>>>,
    <<"moxes", <<"m", "o", "x", "e", "s">>>>,
    <<"6th Street", <<"6", "t", "h", " ", "S", "t", "r", "e", "e", "t">>>>,
    <<"6th_street", <<"6", "t", "h", "_", "s", "t", "r", "e", "e", "t">>>>,
    <<"6Th Street", <<"6", "T", "h", " ", "S", "t", "r", "e", "e", "t">>>>,
    <<"Watson", <<"W", "a", "t", "s", "o", "n">>>>,
    <<"watson", <<"w", "a", "t", "s", "o", "n">>>>,
    <<"Watson (2077)", <<"W", "a", "t", "s", "o", "n", " ", "(", "2", "0", "7", "7", ")">>>>,
    <<"Kabuki", <<"K", "a", "b", "u", "k", "i">>>>,
    <<"kabuki", <<"k", "a", "b", "u", "k", "i">>>>,
    <<"male", <<"m", "a", "l", "e">>>>,
    <<"female", <<"f", "e", "m", "a", "l", "e">>>>,
    <<"unknown", <<"u", "n", "k", "n", "o", "w", "n">>>>,
    <<"Male", <<"M", "a", "l", "e">>>>,
    <<"Female", <<"F", "e", "m", "a", "l", "e">>>>,
    <<"Unknown", <<"U", "n", "k", "n", "o", "w", "n">>>>,
    <<"Scraped text", <<"S", "c", "r", "a", "p", "e", "d", " ", "t", "e", "x", "t">>>>,
    <<"https://static.wikia.nocookie.net/a.png", <<"h", "t", "t", "p", "s", ":", "/", "/", "s", "t", "a", "t", "i", "c", ".", "w", "i", "k", "i", "a", ".", "n", "o", "c", "o", "o", "k", "i", "e", ".", "n", "e", "t", "/", "a", ".", "p", "n", "g">>>>,
    <<"https://static.wikia.nocookie.net/b.JPG", <<"h", "t", "t", "p", "s", ":", "/", "/", "s", "t", "a", "t", "i", "c", ".", "w", "i", "k", "i", "a", ".", "n", "o", "c", "o", "o", "k", "i", "e", ".", "n", "e", "t", "/", "b", ".", "J", "P", "G">>>>,
    <<"jo_li_01.png", <<"j", "o", "_", "l", "i", "_", "0", "1", ".", "p", "n", "g">>>>,
    <<"jo_le_01.png", <<"j", "o", "_", "l", "e", "_", "0", "1", ".", "p", "n", "g">>>>,
    <<"moxes_01.jpg", <<"m", "o", "x", "e", "s", "_", "0", "1", ".", "j", "p", "g">>>>,
    <<"6th_street_01.jpg", <<"6", "t", "h", "_", "s", "t", "r", "e", "e", "t", "_", "0", "1", ".", "j", "p", "g">>>>,
    <<"watson_01.png", <<"w", "a", "t", "s", "o", "n", "_", "0", "1", ".", "p", "n", "g">>>>,
    <<"kabuki_01.png", <<"k", "a", "b", "u", "k", "i", "_", "0", "1", ".", "p", "n", "g">>>>,
    <<"cover.PNG", <<"c", "o", "v", "e", "r", ".", "P", "N", "G">>>>,
    <<"notes.txt", <<"n", "o", "t", "e", "s", ".", "t", "x", "t">>>>,
    <<"old.png", <<"o", "l", "d", ".", "p", "n", "g">>>>,
    <<"https://cyberpunk.fandom.com/wiki/", <<"h", "t", "t", "p", "s", ":", "/", "/", "c", "y", "b", "e", "r", "p", "u", "n", "k", ".", "f", "a", "n", "d", "o", "m", ".", "c", "o", "m", "/", "w", "i", "k", "i", "/">>>>,
    <<"https://cyberpunk.fandom.com/wiki/Jo_Li", <<"h", "t", "t", "p", "s", ":", "/", "/", "c", "y", "b", "e", "r", "p", "u", "n", "k", ".", "f", "a", "n", "d", "o", "m", ".", "c", "o", "m", "/", "w", "i", "k", "i", "/", "J", "o", "_", "L", "i">>>>,
    <<"https://cyberpunk.fandom.com/wiki/Jo_Le", <<"h", "t", "t", "p", "s", ":", "/", "/", "c", "y", "b", "e", "r", "p", "u", "n", "k", ".", "f", "a", "n", "d", "o", "m", ".", "c", "o", "m", "/", "w", "i", "k", "i", "/", "J", "o", "_", "L", "e">>>>,
    <<"https://cyberpunk.fandom.com/wiki/Moxes", <<"h", "t", "t", "p", "s", ":", "/", "/", "c", "y", "b", "e", "r", "p", "u", "n", "k", ".", "f", "a", "n", "d", "o", "m", ".", "c", "o", "m", "/", "w", "i", "k", "i", "/", "M", "o", "x", "e", "s">>>>,
    <<"https://cyberpunk.fandom.com/wiki/6th_Street", <<"h", "t", "t", "p", "s", ":", "/", "/", "c", "y", "b", "e", "r", "p", "u", "n", "k", ".", "f", "a", "n", "d", "o", "m", ".", "c", "o", "m", "/", "w", "i", "k", "i", "/", "6", "t", "h", "_", "S", "t", "r", "e", "e", "t">>>>,
    <<"https://cyberpunk.fandom.com/wiki/Watson_%282077%29", <<"h", "t", "t", "p", "s", ":", "/", "/", "c", "y", "b", "e", "r", "p", "u", "n", "k", ".", "f", "a", "n", "d", "o", "m", ".", "c", "o", "m", "/", "w", "i", "k", "i", "/", "W", "a", "t", "s", "o", "n", "_", "%", "2", "8", "2", "0", "7", "7", "%", "2", "9">>>>,
    <<"https://cyberpunk.fandom.com/wiki/Kabuki", <<"h", "t", "t", "p", "s", ":", "/", "/", "c", "y", "b", "e", "r", "p", "u", "n", "k", ".", "f", "a", "n", "d", "o", "m", ".", "c", "o", "m", "/", "w", "i", "k", "i", "/", "K", "a", "b", "u", "k", "i">>>>,
    <<".png", <<".", "p", "n", "g">>>>,
    <<".jpg", <<".", "j", "p", "g">>>>,
    <<".jpeg", <<".", "j", "p", "e", "g">>>>,
    <<".gif", <<".", "g", "i", "f">>>>,
    <<".webp", <<".", "w", "e", "b", "p">>>>,
    <<"//h/", <<"/", "/", "h", "/">>>>,
    <<"a.png", <<"a", ".", "p", "n", "g">>>>,
    <<"i.JPG", <<"i", ".", "J", "P", "G">>>>,
    <<"/revision/latest", <<"/", "r", "e", "v", "i", "s", "i", "o", "n", "/", "l", "a", "t", "e", "s", "t">>>>,
    <<"/scale-to-width-down/1", <<"/", "s", "c", "a", "l", "e", "-", "t", "o", "-", "w", "i", "d", "t", "h", "-", "d", "o", "w", "n", "/", "1">>>>,
    <<"/smart/w", <<"/", "s", "m", "a", "r", "t", "/", "w">>>>,
    <<"?", <<"?">>>>,
    <<"cb=", <<"c", "b", "=">>>>,
    <<"1", <<"1">>>>,
    <<"//", <<"/", "/">>>>,
    <<"https:", <<"h", "t", "t", "p", "s", ":">>>>,
    <<"/revision/latest/scale-to-width-down/", <<"/", "r", "e", "v", "i", "s", "i", "o", "n", "/", "l", "a", "t", "e", "s", "t", "/", "s", "c", "a", "l", "e", "-", "t", "o", "-", "w", "i", "d", "t", "h", "-", "d", "o", "w", "n", "/">>>>,
    <<"/revision/latest?", <<"/", "r", "e", "v", "i", "s", "i", "o", "n", "/", "l", "a", "t", "e", "s", "t", "?">>>>,
    <<"/revision/latest/smart/", <<"/", "r", "e", "v", "i", "s", "i", "o", "n", "/", "l", "a", "t", "e", "s", "t", "/", "s", "m", "a", "r", "t", "/">>>>,
    <<"?cb=", <<"?", "c", "b", "=">>>>,
    <<"Westbrook", <<"W", "e", "s", "t", "b", "r", "o", "o", "k">>>>,
    <<"Westbrook (2077)", <<"W", "e", "s", "t", "b", "r", "o", "o", "k", " ", "(", "2", "0", "7", "7", ")">>>>,
    <<"westbrook", <<"w", "e", "s", "t", "b", "r", "o", "o", "k">>>>,
    <<"https://cyberpunk.fandom.com/wiki/Westbrook_%282077%29", <<"h", "t", "t", "p", "s", ":", "/", "/", "c", "y", "b", "e", "r", "p", "u", "n", "k", ".", "f", "a", "n", "d", "o", "m", ".", "c", "o", "m", "/", "w", "i", "k", "i", "/", "W", "e", "s", "t", "b", "r", "o", "o", "k", "_", "%", "2", "8", "2", "0", "7", "7", "%", "2", "9">>>>,
    <<"westbrook_01.png", <<"w", "e", "s", "t", "b", "r", "o", "o", "k", "_", "0", "1", ".", "p", "n", "g">>>> }

\* The characters of text t.
Spell(t) == (CHOOSE p \in Spelling : p[1] = t)[2]

\* The text spelled chars.
Unspell(chars) == (CHOOSE p \in Spelling : p[2] = chars)[1]

Digits == <<"0", "1", "2", "3", "4", "5", "6", "7", "8", "9">>

IsIn(c, chars) == \E i \in DOMAIN chars : chars[i] = c

IsLetter(c) == IsIn(c, UpperCase) \/ IsIn(c, LowerCase)

\* \w of the regular expression
IsWordChar(c) == IsLetter(c) \/ IsIn(c, Digits) \/ c = "_"

UpperChar(c) ==
  IF IsIn(c, LowerCase)
    THEN UpperCase[CHOOSE i \in DOMAIN LowerCase : LowerCase[i] = c]
    ELSE c

\* re.sub(r'[^\w\s-]', '', name)
RECURSIVE StripSymbols(_)
StripSymbols(s) ==
  IF s = <<>> THEN <<>>
  ELSE IF IsWordChar(s[1]) \/ s[1] = " " \/ s[1] = "-"
    THEN <<s[1]>> \o StripSymbols(Tail(s))
  ELSE StripSymbols(Tail(s))

\* str.strip()
RECURSIVE StripSpaces(_)
StripSpaces(s) ==
  IF s = <<>> THEN <<>>
  ELSE IF s[1] = " " THEN StripSpaces(Tail(s))
  ELSE IF s[Len(s)] = " " THEN StripSpaces(SubSeq(s, 1, Len(s) - 1))
  ELSE s

\* str.replace(a, b) for one-character a and b
ReplaceChar(s, a, b) == <<>> \o [i \in 1..Len(s) |-> IF s[i] = a THEN b ELSE s[i]]

\* name_safe = re.sub(r'[^\w\s-]', '', name).strip().lower().replace(' ', '_')
NameSafe(name) ==
  Unspell(ReplaceChar(Lower(StripSpaces(StripSymbols(Spell(name)))), " ", "_"))

\* str.title(): a letter is upper-cased after a non-letter and lower-cased
\* after a letter.
TitleCase(s) ==
  <<>> \o [i \in 1..Len(s) |->
            IF i = 1 \/ ~IsLetter(s[i - 1]) THEN UpperChar(s[i]) ELSE LowerChar(s[i])]

\* gerador.format_name: folder_name.replace("_", " ").title()
format_name(folder_name) == Unspell(TitleCase(ReplaceChar(Spell(folder_name), "_", " ")))

\* Characters in code point order, for sorted().
CodePoints ==
  <<" ", "!", "-", ".">> \o Digits \o UpperCase \o <<"_">> \o LowerCase

CodePoint(c) == CHOOSE i \in DOMAIN CodePoints : CodePoints[i] = c

\* a < b for two strings, as Python compares them.
RECURSIVE CharsLess(_, _)
CharsLess(a, b) ==
  IF b = <<>> THEN FALSE
  ELSE IF a = <<>> THEN TRUE
  ELSE IF a[1] = b[1] THEN CharsLess(Tail(a), Tail(b))
  ELSE CodePoint(a[1]) < CodePoint(b[1])

\* sorted(names): names is a set of character sequences.
RECURSIVE SortedChars(_)
SortedChars(names) ==
  IF names = {} THEN <<>>
  ELSE LET first == CHOOSE n \in names : \A m \in names \ {n} : CharsLess(n, m)
       IN <<first>> \o SortedChars(names \ {first})

\* sorted(os.listdir(..)) of a set of texts
SortedTexts(texts) ==
  LET sorted == SortedChars({ Spell(t) : t \in texts })
  IN <<>> \o [i \in 1..Len(sorted) |-> Unspell(sorted[i])]

(***************************************************************************)
(* Python values and the images tree                                       *)
(***************************************************************************)

EmptyDict == [k \in {} |-> None]

\* d.get(k)
Get(d, k) == IF k \in DOMAIN d THEN d[k] ELSE None

\* bool(v) of a text value or None
Truthy(v) == v # None /\ v # ""

\* a or b
Or(a, b) == IF Truthy(a) THEN a ELSE b

\* the dict as it is, None values included
DropNone_KeepAll(d) == d

\* {k: v for k, v in d.items() if v is not None}, d the text-valued items
DropNone(d) == [k \in { j \in DOMAIN d : d[j] # None } |-> d[k]]

\* The values of a sequence.
Range(seq) == { seq[i] : i \in DOMAIN seq }

\* A directory freshly made by mkdir.
EmptyDir == [info |-> <<>>, files |-> {}]

\* Path(..).mkdir(parents=True, exist_ok=True)
MkDir(t, path) ==
  IF path \in DOMAIN t THEN t ELSE t @@ (path :> EmptyDir)

\* path is below directory base
IsBelow(path, base) ==
  Len(path) > Len(base) /\ SubSeq(path, 1, Len(base)) = base

\* The sub-directories of directory base (os.listdir entries that are
\* directories).
SubDirs(t, base) == { p[Len(base) + 1] : p \in { q \in DOMAIN t : IsBelow(q, base) } }

\* os.path.exists(path): the directory or something below it is there
PathExists(t, path) == \E p \in DOMAIN t : p = path \/ IsBelow(p, path)

\* What a file holds when it is not what its writer wrote: text that json
\* cannot parse, or valid JSON of another shape (a list such as [] where an
\* object is expected, an object where a list of items is expected).
Unparseable == [corrupt |-> "unparseable"]
WrongShape == [corrupt |-> "shape"]

\* The value json gave for an info.json is an object (a dict).
IsObject(v) == "corrupt" \notin DOMAIN v

\* json.loads of the directory's info.json inside try/except; {} when the
\* file is missing or json cannot parse it, and whatever value json gives
\* otherwise.
ReadInfo(t, path) ==
  IF path \in DOMAIN t /\ t[path].info # <<>> /\ t[path].info[1] # Unparseable
    THEN t[path].info[1]
  ELSE EmptyDict

\* f"{n:02d}"
TwoDigits(n) == <<Digits[(n \div 10) + 1], Digits[(n % 10) + 1]>>

\* f"{name_safe}_{i:02d}{ext}"
FileName(name_safe, i, ext) ==
  Unspell(Spell(name_safe) \o <<"_">> \o TwoDigits(i) \o Spell(ext))

\* urllib.parse.quote of one character
QuoteChar(c) ==
  IF IsWordChar(c) \/ c \in {".", "-", "~", "/"} THEN <<c>>
  ELSE IF c = "(" THEN <<"%", "2", "8">>
  ELSE IF c = ")" THEN <<"%", "2", "9">>
  ELSE <<"%", "2", "0">>

RECURSIVE Quote(_)
Quote(s) == IF s = <<>> THEN <<>> ELSE QuoteChar(s[1]) \o Quote(Tail(s))

WIKI_URL == "https://cyberpunk.fandom.com/wiki/"

\* f"{WIKI_URL}{quote(title.replace(' ', '_'))}"
WikiUrl(title) ==
  Unspell(Spell(WIKI_URL) \o Quote(ReplaceChar(Spell(title), " ", "_")))

(***************************************************************************)
(* The wiki                                                                *)
(***************************************************************************)

ImageA == "https://static.wikia.nocookie.net/a.png"

ImageB == "https://static.wikia.nocookie.net/b.JPG"

\* CyberpunkScraper.AFFILIATIONS (eight of the twenty-nine), in the order of
\* the dict: keyword, normalized name
AFFILIATIONS ==
  << <<<<"a", "r", "a", "s", "a", "k", "a">>, "Arasaka">>,
     <<<<"m", "i", "l", "i", "t", "e", "c", "h">>, "Militech">>,
     <<<<"m", "a", "e", "l", "s", "t", "r", "o", "m">>, "Maelstrom">>,
     <<<<"6", "t", "h", " ", "s", "t", "r", "e", "e", "t">>, "6th Street">>,
     <<<<"t", "h", "e", " ", "m", "o", "x">>, "The Mox">>,
     <<<<"m", "o", "x", "e", "s">>, "The Mox">>,
     <<<<"n", "c", "p", "d">>, "NCPD">>,
     <<<<"f", "i", "x", "e", "r">>, "Fixer">> >>

\* raw.split(',')[0]
RECURSIVE BeforeComma(_)
BeforeComma(raw) ==
  IF raw = <<>> \/ raw[1] = "," THEN <<>>
  ELSE <<raw[1]>> \o BeforeComma(Tail(raw))

\* _normalize_affiliation: the name of the first keyword the text contains,
\* else the text up to its first comma
normalize_affiliation(raw) ==
  IF raw = <<>> THEN None
  ELSE IF \E i \in DOMAIN AFFILIATIONS : Contains(Lower(raw), AFFILIATIONS[i][1])
    THEN AFFILIATIONS[CHOOSE i \in DOMAIN AFFILIATIONS :
                        /\ Contains(Lower(raw), AFFILIATIONS[i][1])
                        /\ \A j \in 1..(i - 1) :
                             ~Contains(Lower(raw), AFFILIATIONS[j][1])][2]
  ELSE IF Contains(raw, <<",">>) THEN Unspell(StripSpaces(BeforeComma(raw)))
  ELSE Unspell(raw)

\* _parse_infobox, key == 'affiliation': the stripped text of the first
\* affiliation field of the infobox, <<>> when there is none; data has the
\* key only for a non-empty normalized value.
ParseInfoboxAffiliation(text) ==
  IF StripSpaces(text) = <<>> THEN None ELSE normalize_affiliation(StripSpaces(text))

\* The versions of the wiki's one character page: first a woman with an
\* occupation and an affiliation, then edited to a man without them, then
\* moved to a new title.
CharacterPages ==
  { [title |-> "Jo Li",
     infobox |-> [present |-> TRUE,
                  rows |-> <<InfoRow("gender", <<"F", "e", "m", "a", "l", "e">>)>>],
     occupation |-> "Nomad",
     affiliation |-> <<"A", "r", "a", "s", "a", "k", "a", " ", "C", "o", "r", "p", ".">>,
     text |-> "Scraped text", image_urls |-> <<ImageA>>],
    [title |-> "Jo Li",
     infobox |-> [present |-> TRUE,
                  rows |-> <<InfoRow("gender", <<"M", "a", "l", "e">>)>>],
     occupation |-> None, affiliation |-> <<>>,
     text |-> "Scraped text", image_urls |-> <<ImageA>>],
    [title |-> "Jo Le",
     infobox |-> [present |-> TRUE,
                  rows |-> <<InfoRow("gender", <<"M", "a", "l", "e">>)>>],
     occupation |-> None, affiliation |-> <<>>,
     text |-> "Scraped text", image_urls |-> <<ImageA>>],
    [title |-> "Jo Le",
     infobox |-> [present |-> TRUE,
                  rows |-> <<InfoRow("gender", <<"F", "e", "m", "a", "l", "e">>)>>],
     occupation |-> None, affiliation |-> <<>>,
     text |-> "Scraped text", image_urls |-> <<ImageA>>] }

\* GangsScraper.GANGS (two of the twelve)
GANGS == <<"6th Street", "Moxes">>

\* DistrictsScraper.DISTRICTS (two of the eight)
DISTRICTS == << <<"Watson (2077)", "Watson">>, <<"Westbrook (2077)", "Westbrook">> >>

\* The sub-district links of a district page.
SubdistrictLinks(wiki_name) == IF wiki_name = "Watson (2077)" THEN <<"Kabuki">> ELSE <<>>

\* scrape_character: the candidate of the wiki's character page.  The
\* infobox is parsed, the description extracted, the gender detected and the
\* image URLs collected.
scrape_character(page) ==
  [name |-> page.title,
   gender |-> ScrapeGender([title |-> Spell(page.title), infobox |-> page.infobox,
                            description |-> Spell(page.text)]),
   affiliation |-> ParseInfoboxAffiliation(page.affiliation),
   description |-> page.text,
   occupation |-> page.occupation,
   status |-> None,
   wiki_url |-> WikiUrl(page.title),
   image_urls |-> page.image_urls,
   has_images |-> Len(page.image_urls) > 0]

\* scrape_gang: the candidate of a gang's page and gallery.
scrape_gang(gang_name) ==
  [name |-> gang_name,
   description |-> "Scraped text",
   territory |-> None, hq |-> None, founder |-> None,
   leader |-> IF gang_name = "Moxes" THEN "Judy" ELSE None,
   members_count |-> None,
   affiliations |-> <<>>,
   wiki_url |-> WikiUrl(gang_name),
   image_urls |-> <<ImageB>>,
   has_images |-> TRUE]

\* scrape_district: the candidate of a district's page.
scrape_district(wiki_name, display_name) ==
  [name |-> display_name,
   wiki_name |-> wiki_name,
   description |-> "Scraped text",
   subdistricts |-> SubdistrictLinks(wiki_name),
   danger_level |-> None,
   wiki_url |-> WikiUrl(wiki_name),
   image_urls |-> <<ImageA>>,
   has_images |-> TRUE]

\* scrape_subdistrict: the candidate of a sub-district's page.
scrape_subdistrict(wiki_page, display_name) ==
  [name |-> display_name,
   wiki_page |-> wiki_page,
   description |-> "Scraped text",
   wiki_url |-> WikiUrl(wiki_page),
   image_urls |-> <<ImageA>>,
   has_images |-> TRUE]

(***************************************************************************)
(* Reconciliation: the scraper's process_* functions                       *)
(***************************************************************************)

\* "Sem descrição disponível."
NoDescription == "Sem descricao disponivel."

CharactersBase == <<"characters", "sex">>

GangsBase == <<"gangs">>

DistrictsBase == <<"districts">>

\* process_character: the extension of the file an image URL is saved as
CharacterImageExt(url) ==
  LET lower == Lower(Spell(url)) IN
  IF Contains(lower, Spell(".jpg")) \/ Contains(lower, Spell(".jpeg")) THEN ".jpg"
  ELSE IF Contains(lower, Spell(".webp")) THEN ".webp"
  ELSE ".png"

\* process_gang, process_district, process_subdistrict: the same
PageImageExt(url) ==
  IF Contains(Lower(Spell(url)), Spell(".png")) THEN ".png" ELSE ".jpg"

\* The file names the image URLs are downloaded to (every download
\* succeeds, or the file is there already).
DownloadedCharacterImages(name_safe, urls) ==
  <<>> \o [i \in 1..Len(urls) |-> FileName(name_safe, i, CharacterImageExt(urls[i]))]

DownloadedPageImages(name_safe, urls) ==
  <<>> \o [i \in 1..Len(urls) |-> FileName(name_safe, i, PageImageExt(urls[i]))]

\* The directory after the downloads and the write of info.json.
WriteDir(t, dir, files, info) ==
  [MkDir(t, dir) EXCEPT ![dir] = [info |-> <<info>>, files |-> @.files \cup files]]

\* process_character: which gender folder
GenderDir(g) ==
  IF g = "Male" THEN "male"
  ELSE IF g = "Female" THEN "female"
  ELSE "unknown"

\* process_character: the images tree after the candidate char_data is
\* reconciled with the info.json of its directory.
CharacterDir(char_data) ==
  CharactersBase \o <<GenderDir(char_data.gender), NameSafe(char_data.name)>>

\* process_character raises AttributeError: existing_info.get(..) on an
\* info.json that holds JSON other than an object.  scrape_all and main do
\* not catch it.
process_character_Raises(t, char_data) == ~IsObject(ReadInfo(t, CharacterDir(char_data)))

process_character(t, char_data) ==
  LET name_safe == NameSafe(char_data.name)
      char_dir == CharacterDir(char_data)
      downloaded_images ==
        IF char_data.has_images
          THEN DownloadedCharacterImages(name_safe, char_data.image_urls)
          ELSE <<>>
      existing_info == ReadInfo(t, char_dir)
      new_info ==
        [name |-> char_data.name,
         gender |-> char_data.gender,
         affiliation |->
           Or(char_data.affiliation, Or(Get(existing_info, "affiliation"), "Unknown")),
         description |->
           Or(Get(existing_info, "description"), Or(char_data.description, NoDescription)),
         has_images |-> Len(downloaded_images) > 0,
         wiki_url |-> char_data.wiki_url]
        @@ (IF Truthy(char_data.occupation)
              THEN [occupation |-> char_data.occupation] ELSE EmptyDict)
        @@ (IF Truthy(char_data.status)
              THEN [status |-> char_data.status] ELSE EmptyDict)
  IN IF ~IsObject(existing_info)
       THEN [MkDir(t, char_dir) EXCEPT ![char_dir].files = @ \cup Range(downloaded_images)]
       ELSE WriteDir(t, char_dir, Range(downloaded_images), new_info)

\* process_gang
process_gang(t, gang_data) ==
  LET name_safe == NameSafe(gang_data.name)
      gang_dir == GangsBase \o <<name_safe>>
      downloaded_images == DownloadedPageImages(name_safe, gang_data.image_urls)
      info ==
        [name |-> gang_data.name,
         description |-> Or(gang_data.description, NoDescription),
         territory |-> gang_data.territory,
         hq |-> gang_data.hq,
         founder |-> gang_data.founder,
         leader |-> gang_data.leader,
         members_count |-> gang_data.members_count,
         affiliations |-> gang_data.affiliations,
         wiki_url |-> gang_data.wiki_url,
         has_images |-> Len(downloaded_images) > 0]
  IN WriteDir(t, gang_dir, Range(downloaded_images), info)

\* process_district
process_district(t, district_data) ==
  LET name_safe == NameSafe(district_data.name)
      district_dir == DistrictsBase \o <<name_safe>>
      downloaded_images == DownloadedPageImages(name_safe, district_data.image_urls)
      info ==
        [name |-> district_data.name,
         description |-> Or(district_data.description, NoDescription),
         subdistricts |-> district_data.subdistricts,
         danger_level |-> district_data.danger_level,
         wiki_url |-> district_data.wiki_url,
         has_images |-> Len(downloaded_images) > 0]
  IN WriteDir(t, district_dir, Range(downloaded_images), info)

\* process_subdistrict
process_subdistrict(t, subdistrict_data, district_dir) ==
  LET name_safe == NameSafe(subdistrict_data.name)
      sub_dir == district_dir \o <<"subdistricts", name_safe>>
      downloaded_images == DownloadedPageImages(name_safe, subdistrict_data.image_urls)
      info ==
        [name |-> subdistrict_data.name,
         description |-> Or(subdistrict_data.description, NoDescription),
         wiki_url |-> subdistrict_data.wiki_url,
         has_images |-> Len(downloaded_images) > 0]
  IN WriteDir(t, sub_dir, Range(downloaded_images), info)

(***************************************************************************)
(* The scraper's runs                                                      *)
(***************************************************************************)

GenderDirs == <<"male", "female", "unknown">>

\* The character directories of the tree.
CharacterDirs(t) == { p \in DOMAIN t : IsBelow(p, CharactersBase) /\ Len(p) = 4 }

\* _get_existing_characters: directory names and info.json names, lower case
ExistingCharacters(t) ==
  { Lower(Spell(p[4])) : p \in CharacterDirs(t) }
  \cup { Lower(Spell(ReadInfo(t, p).name)) :
           p \in { q \in CharacterDirs(t) : Truthy(Get(ReadInfo(t, q), "name")) } }

\* _character_exists
CharacterExists(t, name) ==
  \/ Spell(NameSafe(name)) \in ExistingCharacters(t)
  \/ Lower(Spell(name)) \in ExistingCharacters(t)

\* In the scrape runs below, failing is the set of the wiki pages whose fetch
\* fails or yields no data in the run: _api_request and _fetch_page return
\* None for them, and scrape_character, scrape_gang, scrape_district and
\* scrape_subdistrict return None in turn.

\* CyberpunkScraper.scrape_all without the filter on _character_exists
ScrapeAllCharacters_NoSkip(t, page, skip_existing, failing) ==
  IF page.title \in failing THEN t
  ELSE process_character(t, scrape_character(page))

\* CyberpunkScraper.scrape_all: the member pages are the wiki's one
\* character page; with skip_existing, pages of existing characters are left
\* out.  "if not char_data: continue"
ScrapeAllCharacters(t, page, skip_existing, failing) ==
  IF skip_existing /\ CharacterExists(t, page.title) THEN t
  ELSE IF page.title \in failing THEN t
  ELSE process_character(t, scrape_character(page))

\* CyberpunkScraper.scrape_all ends with the exception of process_character.
ScrapeAllCharactersRaises(t, page, skip_existing, failing) ==
  /\ ~(skip_existing /\ CharacterExists(t, page.title))
  /\ page.title \notin failing
  /\ process_character_Raises(t, scrape_character(page))

\* GangsScraper.scrape_all, from the i-th gang of GANGS on.
\* "if not gang_data: continue"
RECURSIVE ScrapeGangsFrom(_, _, _)
ScrapeGangsFrom(t, i, failing) ==
  IF i > Len(GANGS) THEN t
  ELSE IF GANGS[i] \in failing THEN ScrapeGangsFrom(t, i + 1, failing)
  ELSE ScrapeGangsFrom(process_gang(t, scrape_gang(GANGS[i])), i + 1, failing)

ScrapeAllGangs(t, failing) == ScrapeGangsFrom(t, 1, failing)

\* DistrictsScraper.scrape_all, the loop over a district's sub-districts.
\* "if sub_data: process_subdistrict"
RECURSIVE ScrapeSubdistrictsFrom(_, _, _, _, _)
ScrapeSubdistrictsFrom(t, subdistricts, district_dir, j, failing) ==
  IF j > Len(subdistricts) THEN t
  ELSE IF subdistricts[j] \in failing
    THEN ScrapeSubdistrictsFrom(t, subdistricts, district_dir, j + 1, failing)
  ELSE ScrapeSubdistrictsFrom(
         process_subdistrict(t, scrape_subdistrict(subdistricts[j], subdistricts[j]),
                             district_dir),
         subdistricts, district_dir, j + 1, failing)

\* The loop over the districts that gives up at the first district without
\* data
RECURSIVE ScrapeDistrictsFrom_StopAtFailure(_, _, _)
ScrapeDistrictsFrom_StopAtFailure(t, i, failing) ==
  IF i > Len(DISTRICTS) THEN t
  ELSE IF DISTRICTS[i][1] \in failing THEN t
  ELSE LET district_data == scrape_district(DISTRICTS[i][1], DISTRICTS[i][2])
           district_dir == DistrictsBase \o <<NameSafe(district_data.name)>>
       IN ScrapeDistrictsFrom_StopAtFailure(
            ScrapeSubdistrictsFrom(process_district(t, district_data),
                                   district_data.subdistricts, district_dir, 1, failing),
            i + 1, failing)

\* DistrictsScraper.scrape_all, from the i-th district of DISTRICTS on.
\* "if not district_data: continue"
RECURSIVE ScrapeDistrictsFrom(_, _, _)
ScrapeDistrictsFrom(t, i, failing) ==
  IF i > Len(DISTRICTS) THEN t
  ELSE IF DISTRICTS[i][1] \in failing THEN ScrapeDistrictsFrom(t, i + 1, failing)
  ELSE LET district_data == scrape_district(DISTRICTS[i][1], DISTRICTS[i][2])
           district_dir == DistrictsBase \o <<NameSafe(district_data.name)>>
       IN ScrapeDistrictsFrom(
            ScrapeSubdistrictsFrom(process_district(t, district_data),
                                   district_data.subdistricts, district_dir, 1, failing),
            i + 1, failing)

ScrapeAllDistricts(t, failing) == ScrapeDistrictsFrom(t, 1, failing)

ScraperCategories == {"characters", "gangs", "districts", "all"}

\* main of the scraper ends with the exception of the character scraper,
\* before the gangs and the districts are scraped.
ScraperRaises(t, page, category, all, failing) ==
  /\ category \in {"characters", "all"}
  /\ ScrapeAllCharactersRaises(t, page, ~all, failing)

\* main of the scraper with --category: the scrapers the category selects,
\* characters, then gangs, then districts.
ScraperMain(t, page, category, all, failing) ==
  LET t1 == IF category \in {"characters", "all"}
              THEN ScrapeAllCharacters(t, page, ~all, failing) ELSE t
      t2 == IF category \in {"gangs", "all"} THEN ScrapeAllGangs(t1, failing) ELSE t1
  IN IF ScraperRaises(t, page, category, all, failing) THEN t1
     ELSE IF category \in {"districts", "all"} THEN ScrapeAllDistricts(t2, failing)
     ELSE t2

(***************************************************************************)
(* The catalog generator (gerador.py)                                      *)
(***************************************************************************)

Categories == {"characters", "gangs", "districts"}

\* No catalog file has been generated.
NoCatalogs == [c \in Categories |-> <<>>]

BASE_IMAGE_URL == "https://jose-pires-neto.github.io/Cyberpunk-2077-API/images"

VALID_EXTENSIONS == {".png", ".jpg", ".jpeg", ".gif", ".webp"}

\* os.path.splitext(filename)[1]: from the last dot on, when that dot is
\* not the first character
RECURSIVE SplitExtFrom(_, _)
SplitExtFrom(chars, i) ==
  IF i <= 1 THEN <<>>
  ELSE IF chars[i] = "." THEN SubSeq(chars, i, Len(chars))
  ELSE SplitExtFrom(chars, i - 1)

SplitExt(filename) == SplitExtFrom(Spell(filename), Len(Spell(filename)))

\* get_image_list: ext = os.path.splitext(filename)[1].lower(); ext in VALID_EXTENSIONS
IsImage(filename) ==
  Lower(SplitExt(filename)) \in { Spell(e) : e \in VALID_EXTENSIONS }

\* Mutant of get_image_list: the images the info.json lists, when it lists any.
get_image_list_FromInfo(t, folder_path) ==
  IF folder_path \notin DOMAIN t THEN <<>>
  ELSE IF "images" \in DOMAIN ReadInfo(t, folder_path) THEN ReadInfo(t, folder_path).images
  ELSE SortedTexts({ f \in t[folder_path].files : IsImage(f) })

\* get_image_list: the image files of the folder, in sorted order
get_image_list(t, folder_path) ==
  IF folder_path \notin DOMAIN t THEN <<>>
  ELSE SortedTexts({ f \in t[folder_path].files : IsImage(f) })

\* The text of a relative path: its parts joined by "/".
RECURSIVE JoinPath(_)
JoinPath(path) ==
  IF path = <<>> THEN <<>>
  ELSE IF Len(path) = 1 THEN <<path[1]>>
  ELSE <<path[1], "/">> \o JoinPath(Tail(path))

\* get_image_urls: f"{BASE_IMAGE_URL}/{relative_path}/{img}", as the
\* sequence of the texts concatenated
get_image_urls(folder_path, images) ==
  <<>> \o [i \in 1..Len(images) |->
            <<BASE_IMAGE_URL, "/">> \o JoinPath(folder_path) \o <<"/", images[i]>>]

\* load_existing_json: the catalog's items by name, a later item replacing
\* an earlier one of the same name; {} when there is no catalog file
RECURSIVE ItemsByName(_, _)
ItemsByName(items, n) ==
  IF n = 0 THEN EmptyDict
  ELSE (items[n].name :> items[n]) @@ ItemsByName(items, n - 1)

\* A catalog file that is not a list of items: read as a list, its one
\* element is what the file holds instead.
CorruptCatalogFile(content) == << <<content>> >>

IsCorruptCatalog(file) ==
  file # <<>> /\ Len(file[1]) = 1 /\ "corrupt" \in DOMAIN file[1][1]

\* "except Exception": {} also when json cannot parse the file or the file
\* is not a list of items with names
load_existing_json(file) ==
  IF file = <<>> \/ IsCorruptCatalog(file) THEN EmptyDict
  ELSE ItemsByName(file[1], Len(file[1]))

\* load_info_json
load_info_json(t, folder_path) == ReadInfo(t, folder_path)

\* os.listdir(base) without sorted(): the folders in some other order, here
\* the sorted order backwards
SortedFolders_Listdir(t, base) ==
  LET names == SortedTexts(SubDirs(t, base))
  IN <<>> \o [i \in 1..Len(names) |-> base \o <<names[Len(names) + 1 - i]>>]

\* The folders of directory base in sorted order, each as its full path.
SortedFolders(t, base) ==
  LET names == SortedTexts(SubDirs(t, base))
  IN <<>> \o [i \in 1..Len(names) |-> base \o <<names[i]>>]

\* scan_characters: the character folders in the order they are scanned,
\* gender by gender
RECURSIVE CharacterFoldersFrom(_, _)
CharacterFoldersFrom(t, g) ==
  IF g > Len(GenderDirs) THEN <<>>
  ELSE SortedFolders(t, CharactersBase \o <<GenderDirs[g]>>)
       \o CharacterFoldersFrom(t, g + 1)

\* scan_characters: the catalog item of one character folder
CharacterItem(t, existing_data, char_full_path, id_counter) ==
  LET gender_folder == char_full_path[3]
      char_folder == char_full_path[4]
      image_urls == get_image_urls(char_full_path, get_image_list(t, char_full_path))
      formatted_name == format_name(char_folder)
      info_data == load_info_json(t, char_full_path)
      by_folder == Get(existing_data, formatted_name)
      old_data ==
        IF Truthy(Get(info_data, "name")) /\ info_data.name \in DOMAIN existing_data
          THEN existing_data[info_data.name]
        ELSE IF formatted_name \in DOMAIN existing_data THEN by_folder
        ELSE EmptyDict
      Merged(field) == Or(Get(info_data, field), Get(old_data, field))
      Optional(field) ==
        IF Truthy(Merged(field)) THEN (field :> Merged(field)) ELSE EmptyDict
  IN [id |-> id_counter,
      name |-> Or(Merged("name"), formatted_name),
      gender |-> Or(Merged("gender"), Unspell(TitleCase(Spell(gender_folder)))),
      directory |-> char_folder,
      has_images |-> Len(image_urls) > 0,
      images |-> image_urls,
      description |-> Or(Merged("description"), NoDescription),
      affiliation |-> Or(Merged("affiliation"), "Unknown")]
     @@ Optional("occupation") @@ Optional("status") @@ Optional("wiki_url")

\* What a scan leaves behind when os.listdir raises on a missing directory.
FileNotFoundError == <<[raised |-> "FileNotFoundError"]>>

\* What a scan leaves behind when info_data.get(..) raises: load_info_json
\* returned JSON other than an object.
AttributeError == <<[raised |-> "AttributeError"]>>

Raised(items) == items \in {FileNotFoundError, AttributeError}

\* info_data.get(..) raises for some of the folders.
GetRaises(t, folders) ==
  \E i \in 1..Len(folders) : ~IsObject(load_info_json(t, folders[i]))

\* scan_characters: the loops over the genders and their folders
ScanCharacterFolders(t, file) ==
  LET folders == CharacterFoldersFrom(t, 1)
      existing_data == load_existing_json(file)
  IN IF GetRaises(t, folders) THEN AttributeError
     ELSE <<>> \o [i \in 1..Len(folders) |-> CharacterItem(t, existing_data, folders[i], i)]

\* scan_characters
scan_characters(t, file) ==
  IF ~PathExists(t, CharactersBase) THEN <<>>
  ELSE ScanCharacterFolders(t, file)

\* scan_gangs: the catalog item of one gang folder
GangItem(t, existing_data, gang_path, id_counter) ==
  LET gang_folder == gang_path[Len(gang_path)]
      image_urls == get_image_urls(gang_path, get_image_list(t, gang_path))
      formatted_name == format_name(gang_folder)
      info_data == load_info_json(t, gang_path)
      old_data == IF formatted_name \in DOMAIN existing_data
                    THEN existing_data[formatted_name] ELSE EmptyDict
  IN DropNone([name |-> Or(Get(info_data, "name"), Or(Get(old_data, "name"), formatted_name)),
               directory |-> gang_folder,
               description |-> Or(Get(info_data, "description"), Get(old_data, "description")),
               founder |-> Get(info_data, "founder"),
               leader |-> Get(info_data, "leader"),
               hq |-> Get(info_data, "hq"),
               territory |-> Get(info_data, "territory"),
               members_count |-> Get(info_data, "members_count"),
               wiki_url |-> Get(info_data, "wiki_url")])
     @@ [id |-> id_counter,
         affiliations |-> IF "affiliations" \in DOMAIN info_data
                            THEN info_data.affiliations ELSE <<>>,
         images |-> image_urls]

\* scan_gangs: the loop over the folders of images/gangs
ScanGangFolders(t, file) ==
  LET folders == SortedFolders(t, GangsBase)
      existing_data == load_existing_json(file)
  IN IF GetRaises(t, folders) THEN AttributeError
     ELSE <<>> \o [i \in 1..Len(folders) |-> GangItem(t, existing_data, folders[i], i)]

\* scan_gangs
scan_gangs(t, file) ==
  IF ~PathExists(t, GangsBase) THEN <<>>
  ELSE ScanGangFolders(t, file)

\* scan_districts: the entry of one sub-district folder
SubdistrictItem(t, sub_path) ==
  LET sub_info == load_info_json(t, sub_path)
  IN DropNone([name |-> Or(Get(sub_info, "name"), format_name(sub_path[Len(sub_path)])),
               description |-> Get(sub_info, "description"),
               wiki_url |-> Get(sub_info, "wiki_url")])
     @@ [images |-> get_image_urls(sub_path, get_image_list(t, sub_path))]

\* scan_districts: the catalog item of one district folder
DistrictItem(t, existing_data, district_path, id_counter) ==
  LET district_folder == district_path[Len(district_path)]
      image_urls == get_image_urls(district_path, get_image_list(t, district_path))
      formatted_name == format_name(district_folder)
      info_data == load_info_json(t, district_path)
      old_data == IF formatted_name \in DOMAIN existing_data
                    THEN existing_data[formatted_name] ELSE EmptyDict
      sub_folders == SortedFolders(t, district_path \o <<"subdistricts">>)
  IN DropNone([name |-> Or(Get(info_data, "name"), Or(Get(old_data, "name"), formatted_name)),
               directory |-> district_folder,
               description |-> Or(Get(info_data, "description"), Get(old_data, "description")),
               danger_level |-> Get(info_data, "danger_level"),
               wiki_url |-> Get(info_data, "wiki_url")])
     @@ [id |-> id_counter,
         images |-> image_urls,
         subdistricts |->
           <<>> \o [j \in 1..Len(sub_folders) |-> SubdistrictItem(t, sub_folders[j])]]

\* scan_districts: the loop over the folders of images/districts
ScanDistrictFolders(t, file) ==
  LET folders == SortedFolders(t, DistrictsBase)
      existing_data == load_existing_json(file)
  IN IF \/ GetRaises(t, folders)
        \/ \E i \in 1..Len(folders) :
             GetRaises(t, SortedFolders(t, folders[i] \o <<"subdistricts">>))
       THEN AttributeError
     ELSE <<>> \o [i \in 1..Len(folders) |-> DistrictItem(t, existing_data, folders[i], i)]

\* scan_districts without "if not os.path.exists(base_path): return []"
scan_districts_Unchecked(t, file) ==
  IF ~PathExists(t, DistrictsBase) THEN FileNotFoundError
  ELSE ScanDistrictFolders(t, file)

\* scan_districts
scan_districts(t, file) ==
  IF ~PathExists(t, DistrictsBase) THEN <<>>
  ELSE ScanDistrictFolders(t, file)

\* main: "if chars: save_json(..)", a catalog file is written only when the
\* scan found an item
SaveIfAny(file, items) == IF items # <<>> THEN <<items>> ELSE file

\* main of the generator: the lists its three scans compute
GeneratorScans(t, files) ==
  [characters |-> scan_characters(t, files.characters),
   gangs |-> scan_gangs(t, files.gangs),
   districts |-> scan_districts(t, files.districts)]

\* No generator run has just completed.
NotScanned == scanned = <<>>

\* main of the generator: the three catalog files after the run; a scan
\* that raises ends the run before its file and the later ones are written
GeneratorMain(t, files) ==
  LET chars == scan_characters(t, files.characters)
      gangs == scan_gangs(t, files.gangs)
      districts == scan_districts(t, files.districts)
  IN [characters |-> IF Raised(chars) THEN files.characters
                     ELSE SaveIfAny(files.characters, chars),
      gangs |-> IF Raised(chars) \/ Raised(gangs) THEN files.gangs
                ELSE SaveIfAny(files.gangs, gangs),
      districts |-> IF Raised(chars) \/ Raised(gangs) \/ Raised(districts)
                      THEN files.districts
                    ELSE SaveIfAny(files.districts, districts)]

(***************************************************************************)
(* The pipeline: wiki changes, scraper runs, generator runs, manual edits  *)
(***************************************************************************)

\* Bound: manual changes to the images tree in one behaviour.
MaxEdits == 1

\* No pipeline run is in progress.
NoRerun == [phase |-> 0, page |-> <<>>, all |-> FALSE, first |-> NoCatalogs]

\* Nothing scraped, nothing generated.
PipelineIdle ==
  /\ tree = <<>>
  /\ catalogs = NoCatalogs
  /\ edits = 0
  /\ rerun = NoRerun

\* The wiki's character page is edited or moved.
WikiChange ==
  /\ \E page \in CharacterPages \ {wiki} : wiki' = page
  /\ UNCHANGED <<tree, catalogs, edits>>

\* History of a scraper run: a run of every category starts the first
\* pipeline run, or the second one when the first is complete and the wiki
\* and the options are the same.
RerunAfterScrape(category, all) ==
  IF category # "all" THEN NoRerun
  ELSE IF rerun.phase = 2 /\ rerun.page = <<wiki>> /\ rerun.all = all
    THEN [rerun EXCEPT !.phase = 3]
  ELSE [phase |-> 1, page |-> <<wiki>>, all |-> all, first |-> NoCatalogs]

\* python scraper.py --category <category> [--all], every fetch succeeding
RunScraper(category, all) ==
  /\ tree' = ScraperMain(tree, wiki, category, all, {})
  /\ UNCHANGED <<wiki, catalogs, edits>>

\* History of a generator run: it completes the pipeline run in progress.
RerunAfterGenerate(files) ==
  IF rerun.phase = 1 THEN [rerun EXCEPT !.phase = 2, !.first = files]
  ELSE IF rerun.phase = 3 THEN [rerun EXCEPT !.phase = 4]
  ELSE NoRerun

\* python gerador.py
Generate ==
  /\ catalogs' = GeneratorMain(tree, catalogs)
  /\ UNCHANGED <<wiki, tree, edits>>

ManualFiles == {"cover.PNG", "notes.txt"}

\* A person rewrites the description in an entity's info.json and, with
\* images, leaves a list of images in it.
EditInfo(path, images) ==
  /\ tree[path].info # <<>>
  /\ tree' = [tree EXCEPT ![path].info =
                <<[@[1] EXCEPT !.description = "Hand-written text"]
                  @@ (IF images THEN [images |-> <<"old.png">>] ELSE EmptyDict)>>]

\* What a person may write into a field of an info.json.
ManualValues ==
  [affiliation |-> "Maelstrom", status |-> "Alive", territory |-> "Kabuki",
   danger_level |-> "High"]

\* The fields a person fills in by hand: of a character, of a gang, of a
\* district.
ManualFields(path) ==
  IF IsBelow(path, CharactersBase) THEN {"affiliation", "status"}
  ELSE IF IsBelow(path, GangsBase) THEN {"territory"}
  ELSE IF Len(path) = Len(DistrictsBase) + 1 THEN {"danger_level"}
  ELSE {}

\* A person writes the value of their choice into a field of an entity's
\* info.json.
EditField(path, field) ==
  /\ tree[path].info # <<>>
  /\ tree' = [tree EXCEPT ![path].info = <<(field :> ManualValues[field]) @@ @[1]>>]

\* A person puts a file into an entity's directory.
AddFile(path, filename) ==
  /\ filename \notin tree[path].files
  /\ tree' = [tree EXCEPT ![path].files = @ \cup {filename}]

\* The directory the generator scans for a category.
SourceDir(category) ==
  CASE category = "characters" -> CharactersBase
    [] category = "gangs" -> GangsBase
    [] category = "districts" -> DistrictsBase

\* A person deletes a category's directory with everything in it.
RemoveCategory(category) ==
  /\ PathExists(tree, SourceDir(category))
  /\ tree' = [p \in { q \in DOMAIN tree : ~IsBelow(q, SourceDir(category)) } |-> tree[p]]

\* An info.json is left unreadable, or with JSON that is not an object.
CorruptInfo(path, content) ==
  /\ tree[path].info # <<>>
  /\ tree' = [tree EXCEPT ![path].info = <<content>>]
  /\ UNCHANGED catalogs

\* A catalog file is left unreadable, or with JSON that is not a list of
\* items.
CorruptCatalog(category, content) ==
  /\ catalogs[category] # <<>>
  /\ catalogs' = [catalogs EXCEPT ![category] = CorruptCatalogFile(content)]
  /\ UNCHANGED tree

\* A file of the persisted state is corrupted.
Corruption ==
  /\ edits < MaxEdits
  /\ \E content \in {Unparseable, WrongShape} :
       \/ \E path \in DOMAIN tree : CorruptInfo(path, content)
       \/ \E category \in Categories : CorruptCatalog(category, content)
  /\ edits' = edits + 1
  /\ UNCHANGED wiki

\* A manual change to the images tree.
ManualEdit ==
  /\ edits < MaxEdits
  /\ \/ \E path \in DOMAIN tree :
          \/ \E images \in BOOLEAN : EditInfo(path, images)
          \/ \E field \in ManualFields(path) : EditField(path, field)
          \/ \E filename \in ManualFiles : AddFile(path, filename)
     \/ \E category \in Categories : RemoveCategory(category)
  /\ edits' = edits + 1
  /\ UNCHANGED <<wiki, catalogs>>

(***************************************************************************)
(* Claims about reconciliation and the catalog                             *)
(***************************************************************************)

\* A run of the scraper.
ScraperStep ==
  \E category \in ScraperCategories, all \in BOOLEAN : RunScraper(category, all)

\* The entity directory has an info.json with a non-empty description.
HasDescription(t, path) ==
  /\ path \in DOMAIN t
  /\ t[path].info # <<>>
  /\ Truthy(Get(t[path].info[1], "description"))

\* C4: for every entity kind, when the entity's info.json exists with a
\* non-empty description, a scraper run that reconciles a fresh candidate
\* leaves that description in the info.json it writes back.
C4_DescriptionKept ==
  [][ScraperStep =>
       \A path \in DOMAIN tree :
         HasDescription(tree, path) =>
           tree'[path].info[1].description = tree[path].info[1].description]_vars

\* The items of a catalog file, none when the file is missing.
Items(file) == IF file = <<>> THEN <<>> ELSE file[1]

\* The image files of an entity directory.
ImageFiles(t, path) == { f \in t[path].files : IsImage(f) }

\* images lists every image file of the directory once, as its URL, in
\* sorted file name order.
ListsImages(images, t, path) ==
  /\ Len(images) = Cardinality(ImageFiles(t, path))
  /\ \A i \in 1..Len(images) :
       \E f \in ImageFiles(t, path) :
         images[i] = <<BASE_IMAGE_URL, "/">> \o JoinPath(path) \o <<"/", f>>
  /\ \A i, j \in 1..Len(images) :
       i < j => CharsLess(Spell(images[i][Len(images[i])]),
                          Spell(images[j][Len(images[j])]))

\* Every item of the catalog lists the images of its folder.
ItemsListImages(items, folders, t) ==
  /\ Len(items) = Len(folders)
  /\ \A k \in 1..Len(items) : ListsImages(items[k].images, t, folders[k])

\* C5: every entity in the lists a generator run computes has as images
\* exactly the image files the scan finds in the entity's directory, in sorted
\* file name order, whatever images the info.json or the previous catalog
\* hold.
C5_ImagesAreTheScan ==
  [][Generate =>
       LET emitted == GeneratorScans(tree, catalogs)
       IN /\ ItemsListImages(emitted.characters, CharacterFoldersFrom(tree, 1), tree)
          /\ ItemsListImages(emitted.gangs, SortedFolders(tree, GangsBase), tree)
          /\ LET districts == emitted.districts
                 folders == SortedFolders(tree, DistrictsBase)
             IN /\ ItemsListImages(districts, folders, tree)
                /\ \A k \in 1..Len(districts) :
                     ItemsListImages(districts[k].subdistricts,
                                     SortedFolders(tree, folders[k] \o <<"subdistricts">>),
                                     tree)]_vars

\* C5 witness: a gang whose info.json was rewritten by hand, with a stale
\* images list, is in a catalog generated since, and its images are the
\* files of its directory.
C5_Witness ==
  \E k \in 1..Len(Items(catalogs.gangs)) :
    LET item == Items(catalogs.gangs)[k]
        info == ReadInfo(tree, GangsBase \o <<item.directory>>)
    IN /\ item.description = "Hand-written text"
       /\ Get(info, "description") = "Hand-written text"
       /\ "images" \in DOMAIN info
       /\ info.images = <<"old.png">>
       /\ Len(item.images) = 1
       /\ item.images[1][Len(item.images[1])] # "old.png"

\* The scraper run processes the wiki's character page.
ScrapesCharacter ==
  \E category \in {"characters", "all"}, all \in BOOLEAN :
    /\ RunScraper(category, all)
    /\ all \/ ~CharacterExists(tree, wiki.title)

\* The character has an info.json, written under another name, in the
\* gender folder the coming scrape puts it in.
RenamedSince(path) ==
  /\ path \in CharacterDirs(tree)
  /\ path[3] = GenderDir(scrape_character(wiki).gender)
  /\ tree[path].info # <<>>
  /\ tree[path].info[1].name # wiki.title

\* C6: when an entity that has an info.json is scraped again under a changed
\* display name, the name in that info.json is updated and no second
\* directory is created: the entity stays in the directory of its first scrape.
C6_RenameKeepsDirectory ==
  [][\A path \in DOMAIN tree :
       (ScrapesCharacter /\ RenamedSince(path)) =>
         /\ CharacterDirs(tree') = CharacterDirs(tree)
         /\ tree'[path].info[1].name = wiki.title]_vars

\* The items of the characters catalog kept in the directory named so.
ItemsOfDirectory(directory) ==
  { k \in 1..Len(Items(catalogs.characters)) :
      Items(catalogs.characters)[k].directory = directory }

\* C7: after any sequence of scrapes of the same character, also when the
\* detected gender changed between them, the character has one directory
\* under the gender folders and is in the characters catalog once.
C7_OneDirectoryPerCharacter ==
  /\ \A p, q \in CharacterDirs(tree) : p[4] = q[4] => p = q
  /\ \A p \in CharacterDirs(tree) : Cardinality(ItemsOfDirectory(p[4])) <= 1

\* C8: a second run of the whole pipeline, on the same wiki and without a
\* manual edit in between, generates for every category the catalog the
\* first run generated.
C8_SecondRunSameCatalogs == rerun.phase = 4 => catalogs = rerun.first

(***************************************************************************)
(* Image URL canonicalization                                              *)
(*                                                                         *)
(* A URL is the sequence of its characters; the result of a canonicalizer  *)
(* is <<>> for None and <<url>> for a URL.                                 *)
(***************************************************************************)

IsDigit(c) == IsIn(c, Digits)

\* The index of the last digit of the run of digits that starts at i.
RECURSIVE DigitsEnd(_, _)
DigitsEnd(s, i) ==
  IF i < Len(s) /\ IsDigit(s[i + 1]) THEN DigitsEnd(s, i + 1) ELSE i

\* re.sub(lit + r'\d+', repl, s), from position i on: every match, left to
\* right, the digits taken greedily.
RECURSIVE SubDigitsFrom(_, _, _, _)
SubDigitsFrom(s, lit, repl, i) ==
  IF i > Len(s) THEN <<>>
  ELSE IF /\ MatchAt(s, lit, i)
          /\ i + Len(lit) <= Len(s)
          /\ IsDigit(s[i + Len(lit)])
    THEN repl \o SubDigitsFrom(s, lit, repl, DigitsEnd(s, i + Len(lit)) + 1)
  ELSE <<s[i]>> \o SubDigitsFrom(s, lit, repl, i + 1)

SubDigits(s, lit, repl) == SubDigitsFrom(s, lit, repl, 1)

\* re.sub(lit + r'.*$', repl, s): the leftmost match runs to the end.
SubToEnd(s, lit, repl) ==
  IF Contains(s, lit)
    THEN LET i == CHOOSE k \in 1..Len(s) :
                    /\ MatchAt(s, lit, k)
                    /\ \A j \in 1..(k - 1) : ~MatchAt(s, lit, j)
         IN SubSeq(s, 1, i - 1) \o repl
    ELSE s

\* re.sub(lit + r'\d+.*$', repl, s)
SubDigitsToEnd(s, lit, repl) ==
  LET Starts(k) == /\ MatchAt(s, lit, k)
                   /\ k + Len(lit) <= Len(s)
                   /\ IsDigit(s[k + Len(lit)])
  IN IF \E k \in 1..Len(s) : Starts(k)
       THEN LET i == CHOOSE k \in 1..Len(s) :
                       Starts(k) /\ \A j \in 1..(k - 1) : ~Starts(j)
            IN SubSeq(s, 1, i - 1) \o repl
       ELSE s

\* re.sub(lit + r'.*?\?', repl, s), from position i on: every match, left to
\* right, each ending at the first "?" after lit.
RECURSIVE SubUpToQueryFrom(_, _, _, _)
SubUpToQueryFrom(s, lit, repl, i) ==
  IF i > Len(s) THEN <<>>
  ELSE IF /\ MatchAt(s, lit, i)
          /\ \E q \in (i + Len(lit))..Len(s) : s[q] = "?"
    THEN LET q == CHOOSE k \in (i + Len(lit))..Len(s) :
                    /\ s[k] = "?"
                    /\ \A j \in (i + Len(lit))..(k - 1) : s[j] # "?"
         IN repl \o SubUpToQueryFrom(s, lit, repl, q + 1)
  ELSE <<s[i]>> \o SubUpToQueryFrom(s, lit, repl, i + 1)

SubUpToQuery(s, lit, repl) == SubUpToQueryFrom(s, lit, repl, 1)

ImageExtensions == <<".png", ".jpg", ".jpeg", ".gif", ".webp">>

\* url.endswith(ext) for one of the extensions, instead of ext in url
HasImageExtension_AtEnd(url) ==
  \E e \in DOMAIN ImageExtensions :
    LET ext == Spell(ImageExtensions[e]) IN
    /\ Len(ext) <= Len(url)
    /\ MatchAt(Lower(url), ext, Len(url) - Len(ext) + 1)

\* any(ext in url.lower() for ext in [...])
HasImageExtension(url) ==
  \E e \in DOMAIN ImageExtensions :
    Contains(Lower(url), Spell(ImageExtensions[e]))

\* url.startswith('//'): url = 'https:' + url
WithScheme(url) ==
  IF MatchAt(url, Spell("//"), 1) THEN Spell("https:") \o url ELSE url

\* CyberpunkScraper._clean_image_url up to the extension test
RewriteImageUrl_Characters(url) ==
  LET u1 == WithScheme(url)
      u2 == SubDigits(u1, Spell("/revision/latest/scale-to-width-down/"),
                      Spell("/revision/latest"))
      u3 == SubToEnd(u2, Spell("/revision/latest?"), Spell("/revision/latest"))
  IN SubDigits(u3, Spell("?cb="), <<>>)

clean_image_url_Characters(url) ==
  IF url = <<>> THEN <<>>
  ELSE LET u == RewriteImageUrl_Characters(url)
       IN IF ~HasImageExtension(u) THEN <<>> ELSE <<u>>

\* GangsScraper._clean_image_url up to the extension test
RewriteImageUrl_Gangs(url) ==
  LET u1 == WithScheme(url)
      u2 == SubDigits(u1, Spell("/revision/latest/scale-to-width-down/"),
                      Spell("/revision/latest"))
      u3 == SubUpToQuery(u2, Spell("/revision/latest/smart/"),
                         Spell("/revision/latest?"))
  IN SubDigitsToEnd(u3, Spell("?cb="), <<>>)

clean_image_url_Gangs(url) ==
  IF url = <<>> THEN <<>>
  ELSE LET u == RewriteImageUrl_Gangs(url)
       IN IF ~HasImageExtension(u) THEN <<>> ELSE <<u>>

\* DistrictsScraper._clean_image_url up to the extension test
RewriteImageUrl_Districts(url) ==
  LET u1 == WithScheme(url)
      u2 == SubDigits(u1, Spell("/revision/latest/scale-to-width-down/"),
                      Spell("/revision/latest"))
      u3 == SubToEnd(u2, Spell("/revision/latest?"), Spell("/revision/latest"))
  IN SubDigits(u3, Spell("?cb="), <<>>)

clean_image_url_Districts(url) ==
  IF url = <<>> THEN <<>>
  ELSE LET u == RewriteImageUrl_Districts(url)
       IN IF ~HasImageExtension(u) THEN <<>> ELSE <<u>>

Scrapers == {"characters", "gangs", "districts"}

RewriteImageUrl(scraper, url) ==
  CASE scraper = "characters" -> RewriteImageUrl_Characters(url)
    [] scraper = "gangs" -> RewriteImageUrl_Gangs(url)
    [] scraper = "districts" -> RewriteImageUrl_Districts(url)

clean_image_url(scraper, url) ==
  CASE scraper = "characters" -> clean_image_url_Characters(url)
    [] scraper = "gangs" -> clean_image_url_Gangs(url)
    [] scraper = "districts" -> clean_image_url_Districts(url)

\* The pieces the src attributes of the wiki's img elements are made of.
UrlPieces ==
  {"//h/", "a.png", "i.JPG", "/revision/latest", "/scale-to-width-down/1",
   "/smart/w", "?", "cb=", "1"}

MaxUrlPieces == 4

RECURSIVE UrlsOf(_)
UrlsOf(n) ==
  IF n = 0 THEN {<<>>}
  ELSE {Spell(p) \o u : p \in UrlPieces, u \in UrlsOf(n - 1)}

Urls == UNION {UrlsOf(n) : n \in 0..MaxUrlPieces}

CanonIdle == canon = [scraper |-> "characters", url |-> <<>>, out |-> <<>>]

InitCanon ==
  canon \in {[scraper |-> s, url |-> u, out |-> <<>>] : s \in Scrapers, u \in Urls}

\* One call of the scraper's canonicalizer: on the src attribute first, then
\* on the URL the call before returned.
CleanImageUrl ==
  /\ Len(canon.out) < 2
  /\ canon.out # <<>> => canon.out[1] # <<>>
  /\ LET url == IF canon.out = <<>> THEN canon.url ELSE canon.out[1][1]
     IN canon' = [canon EXCEPT !.out = Append(@, clean_image_url(canon.scraper, url))]

(***************************************************************************)
(* Claims about canonicalization                                           *)
(***************************************************************************)

\* C11: in each scraper, canonicalizing a URL the canonicalizer returned
\* gives that URL again.
C11_Idempotent ==
  Len(canon.out) = 2 => canon.out[2] = canon.out[1]

\* s ends in one of the known image extensions, in any case
EndsInExtension(s) ==
  LET lower == Lower(s) IN
  \E ext \in {".png", ".jpg", ".jpeg", ".gif", ".webp"} :
    LET e == Spell(ext) IN
    /\ Len(e) <= Len(s)
    /\ SubSeq(lower, Len(s) - Len(e) + 1, Len(s)) = e

\* s holds one of the known image extensions somewhere, in any case
MentionsExtension(s) ==
  LET lower == Lower(s) IN
  \E ext \in {".png", ".jpg", ".jpeg", ".gif", ".webp"} :
    LET e == Spell(ext) IN
    \E i \in 1..Len(s) :
      /\ i + Len(e) - 1 <= Len(s)
      /\ \A j \in 1..Len(e) : lower[i + j - 1] = e[j]

\* C12 as stated: a URL that does not end in a known image extension after
\* the rewrites is rejected.
C12_RejectsNotEnding ==
  (Len(canon.out) >= 1 /\ ~EndsInExtension(RewriteImageUrl(canon.scraper, canon.url)))
    => canon.out[1] = <<>>

\* C12, amended: a URL is rejected exactly when, after the rewrites, it holds
\* none of the known image extensions anywhere (in any case) or when it is
\* empty; otherwise the rewritten URL is returned.
C12_RejectsNoExtension ==
  Len(canon.out) >= 1 =>
    LET u == RewriteImageUrl(canon.scraper, canon.url) IN
    /\ MentionsExtension(u) => canon.out[1] = <<u>>
    /\ ~MentionsExtension(u) => canon.out[1] = <<>>

\* A URL with an extension before the rewrites and none after them is
\* rejected.
C12_Witness ==
  /\ Len(canon.out) >= 1
  /\ canon.out[1] = <<>>
  /\ MentionsExtension(canon.url)
  /\ ~MentionsExtension(RewriteImageUrl(canon.scraper, canon.url))

(***************************************************************************)
(* Claims about the generator                                              *)
(***************************************************************************)

\* The list the aggregator of a category computes from the tree and the
\* catalog files.
Scan(category, t, files) ==
  CASE category = "characters" -> scan_characters(t, files.characters)
    [] category = "gangs" -> scan_gangs(t, files.gangs)
    [] category = "districts" -> scan_districts(t, files.districts)

\* C13: in a generator run, the aggregator of a category whose source
\* directory does not exist returns the empty list (it does not raise), and
\* the run goes on: every other category's non-empty list is written.
C13_MissingSourceEmptyList ==
  [][Generate =>
       \A c \in Categories :
         ~PathExists(tree, SourceDir(c)) =>
           /\ Scan(c, tree, catalogs) = <<>>
           /\ \A d \in Categories \ {c} :
                Scan(d, tree, catalogs) # <<>>
                  => catalogs'[d] = <<Scan(d, tree, catalogs)>>]_vars

\* The generator ran while images/characters/sex did not exist, and wrote
\* the gangs catalog.
C13_Witness ==
  /\ edits = 0
  /\ ~PathExists(tree, CharactersBase)
  /\ catalogs.characters = <<>>
  /\ catalogs.gangs # <<>>

(***************************************************************************)
(* The editing service (src/editor/server.py)                              *)
(***************************************************************************)

CATEGORIES == {"characters", "gangs", "districts"}

\* load_json: the list in the category's catalog file; [] when there is no
\* file
load_json(files, category) ==
  IF files[category] = <<>> THEN <<>> ELSE files[category][1]

\* ItemIndex with the position taken for the id
ItemIndex_ByPosition(data, item_id) ==
  IF item_id \in DOMAIN data THEN item_id
  ELSE IF data # <<>> THEN 1
  ELSE 0

\* next((i for i, x in enumerate(data) if x.get('id') == item_id), None),
\* 0 for None
ItemIndex(data, item_id) ==
  IF \E i \in DOMAIN data : Get(data[i], "id") = item_id
    THEN CHOOSE i \in DOMAIN data :
           /\ Get(data[i], "id") = item_id
           /\ \A j \in 1..(i - 1) : Get(data[j], "id") # item_id
    ELSE 0

protected_fields == {"id", "images", "directory"}

\* data[item_index][key] = value for every key of the payload, protected or
\* not
UpdatedItem_Unprotected(item, updates) == updates @@ item

\* for key, value in updates.items():
\*     if key not in protected_fields: data[item_index][key] = value
UpdatedItem(item, updates) ==
  LET allowed == DOMAIN updates \ protected_fields
      changes == [k \in allowed |-> updates[k]]
  IN changes @@ item

\* Bound: requests to the editing service in one behaviour.
MaxUpdates == 2

\* The ids a request may name: a catalog of the wiki modelled here holds one
\* or two items.
ItemIds == 1..3

\* What a client may send for each field.
PayloadValues ==
  [id |-> 9, images |-> <<>>, directory |-> "moved",
   description |-> "Edited", notes |-> "Edited"]

\* The fields of the payloads a client sends: notes only comes together with
\* every protected field.
PayloadFields ==
  {{}, {"description"}, {"id", "description"}, {"directory"},
   {"id", "images", "directory", "notes"}}

UpdatePayloads ==
  {[k \in fields |-> PayloadValues[k]] : fields \in PayloadFields}

NoReply == [status |-> 0]

EditorIdle ==
  /\ reply = NoReply
  /\ nupdates = 0

\* PUT /api/<category>/<item_id> with a JSON payload
update_one(category, item_id, updates) ==
  /\ nupdates < MaxUpdates
  /\ nupdates' = nupdates + 1
  /\ IF category \notin CATEGORIES
       THEN /\ reply' = [status |-> 404, error |-> "Categoria"]
            /\ UNCHANGED catalogs
     ELSE LET data == load_json(catalogs, category)
              item_index == ItemIndex(data, item_id)
          IN IF item_index = 0
               THEN /\ reply' = [status |-> 404, error |-> "Item"]
                    /\ UNCHANGED catalogs
             ELSE /\ catalogs' =
                       [catalogs EXCEPT ![category] =
                          <<[data EXCEPT ![item_index] = UpdatedItem(@, updates)]>>]
                  /\ reply' = [status |-> 200,
                               item |-> UpdatedItem(data[item_index], updates)]
  /\ UNCHANGED <<wiki, tree, edits, rerun>>

UpdateOne ==
  \E category \in CATEGORIES \cup {"affiliations"}, item_id \in ItemIds,
     updates \in UpdatePayloads :
    update_one(category, item_id, updates)

(***************************************************************************)
(* Claims about the editing service                                        *)
(***************************************************************************)

\* item as far as the protected fields go
Protected(item) ==
  [k \in DOMAIN item \cap protected_fields |-> item[k]]

\* item without the fields in keys
Without(item, keys) == [k \in DOMAIN item \ keys |-> item[k]]

\* C14: a partial update leaves the id, the images and the directory of
\* every catalog item as they were, whatever the payload; it changes only
\* the non-protected fields named in the payload, and only on the item whose
\* id matches.
C14_ProtectedFieldsKept ==
  [][\A category \in CATEGORIES \cup {"affiliations"}, item_id \in ItemIds,
        updates \in UpdatePayloads :
       update_one(category, item_id, updates) =>
         \A c \in Categories :
           LET old == load_json(catalogs, c)
               new == load_json(catalogs', c)
           IN /\ Len(new) = Len(old)
              /\ \A i \in DOMAIN old :
                   /\ Protected(new[i]) = Protected(old[i])
                   /\ (c # category \/ old[i].id # item_id) => new[i] = old[i]
                   /\ Without(new[i], DOMAIN updates \ protected_fields)
                        = Without(old[i], DOMAIN updates \ protected_fields)]_vars

\* An update that named every protected field was applied: its notes are
\* in the second gang's item.
C14_Witness ==
  /\ reply.status = 200
  /\ "notes" \in DOMAIN reply.item
  /\ Len(load_json(catalogs, "gangs")) = 2
  /\ load_json(catalogs, "gangs")[2] = reply.item
  /\ reply.item.id = 2
  /\ reply.item.directory = "moxes"

\* C15: an update for a category that is not known, or for an id no item of
\* the category's catalog has, is answered with not-found and leaves the
\* catalog files as they are.
C15_UnknownIsNotFound ==
  [][\A category \in CATEGORIES \cup {"affiliations"}, item_id \in ItemIds,
        updates \in UpdatePayloads :
       (/\ update_one(category, item_id, updates)
        /\ \/ category \notin Categories
           \/ \A i \in DOMAIN load_json(catalogs, category) :
                load_json(catalogs, category)[i].id # item_id)
         => /\ reply'.status = 404
            /\ catalogs' = catalogs]_vars

\* An update for an id that no item has was answered with not-found while
\* the characters catalog had an item.
C15_Witness ==
  /\ reply.status = 404
  /\ reply.error = "Item"
  /\ load_json(catalogs, "characters") # <<>>

\* The directory names of the items, in the order of the list.
DirectoriesOf(items) == <<>> \o [i \in 1..Len(items) |-> Spell(items[i].directory)]

\* The record at position i has id i.
IdsByPosition(items) == \A i \in DOMAIN items : items[i].id = i

\* No name is before the name in front of it.
Ascending(names) ==
  \A i \in 1..(Len(names) - 1) : ~CharsLess(names[i + 1], names[i])

\* C16 as stated: in every category, the list the aggregator returns is in
\* ascending order of the directory names and the record at position i has
\* id i.
C16_SortedByDirectory ==
  \A c \in Categories :
    LET items == Scan(c, tree, catalogs)
    IN IdsByPosition(items) /\ Ascending(DirectoriesOf(items))

\* The place of a gender directory in the aggregator's walk.
GenderRank(g) == CHOOSE r \in DOMAIN GenderDirs : GenderDirs[r] = g

\* Character directory q is walked before character directory p.
WalkedBefore(q, p) ==
  \/ GenderRank(q[3]) < GenderRank(p[3])
  \/ q[3] = p[3] /\ CharsLess(Spell(q[4]), Spell(p[4]))

\* C16, amended: the record at position i has id i in every category; the
\* gangs and the districts are in ascending order of their directory
\* names, one record per directory; the characters are listed gender by
\* gender (male, female, unknown) and, within a gender, in ascending order of
\* their directory names.
C16_SortedWithinGender ==
  /\ \A c \in Categories : IdsByPosition(Scan(c, tree, catalogs))
  /\ \A c \in {"gangs", "districts"} :
       LET items == Scan(c, tree, catalogs) IN
       /\ Ascending(DirectoriesOf(items))
       /\ {items[i].directory : i \in DOMAIN items} = SubDirs(tree, SourceDir(c))
       /\ Len(items) = Cardinality(SubDirs(tree, SourceDir(c)))
  /\ LET items == Scan("characters", tree, catalogs)
         dirs == CharacterDirs(tree)
     IN /\ Len(items) = Cardinality(dirs)
        /\ \A p \in dirs :
             items[1 + Cardinality({q \in dirs : WalkedBefore(q, p)})].directory = p[4]

\* The generated characters catalog lists a male character's directory in
\* front of a female character's directory whose name sorts first, and the
\* gangs catalog lists two gangs.
C16_Witness ==
  /\ Len(load_json(catalogs, "characters")) = 2
  /\ CharsLess(Spell(load_json(catalogs, "characters")[2].directory),
               Spell(load_json(catalogs, "characters")[1].directory))
  /\ Len(load_json(catalogs, "gangs")) = 2

\* The fields of a record whose values are lists, and those whose values are
\* never empty (a number, a boolean).
ListFields == {"images", "affiliations", "subdistricts"}

ScalarFields == {"id", "has_images"}

\* The value of field k is None, the empty string or the empty list.
IsEmptyValue(record, k) ==
  IF k \in ListFields THEN record[k] = <<>>
  ELSE IF k \in ScalarFields THEN FALSE
  ELSE record[k] = None \/ record[k] = ""

IsNone(record, k) ==
  IF k \in ListFields \cup ScalarFields THEN FALSE ELSE record[k] = None

C18_CatalogIsTheScan ==
  scanned # <<>> =>
    \A c \in Categories : load_json(catalogs, c) = scanned[1][c]

(***************************************************************************)
(* A catalog file while it is written and read                             *)
(*                                                                         *)
(* save_json opens the file with mode 'w', which empties it, and json.dump *)
(* writes the text piece by piece through the file's buffer; the text      *)
(* reaches the file when the buffer is flushed and when the file is        *)
(* closed.  The editing service's load_json reads the file in another      *)
(* thread or process.                                                      *)
(***************************************************************************)

\* The lists a catalog file may hold: records a and b stand for two items.
Contents == {<<>>, <<"a">>, <<"b">>, <<"a", "b">>}

\* json.dump(data, f): the pieces of the text, in the order they are written
RECURSIVE DumpItems(_, _)
DumpItems(data, i) ==
  IF i > Len(data) THEN <<>>
  ELSE (IF i > 1 THEN <<",">> ELSE <<>>) \o <<data[i]>> \o DumpItems(data, i + 1)

json_dump(data) == <<"[">> \o DumpItems(data, 1) \o <<"]">>

\* The text is the complete text of a list.
IsJson(text) == \E data \in Contents : json_dump(data) = text

\* json.load(f)
json_load(text) == CHOOSE data \in Contents : json_dump(data) = text

\* load_json of the editing service on the file as it is on disk: [] when
\* the file is missing (FileNotFoundError) or is not complete JSON
\* (JSONDecodeError)
load_json_FromDisk(file) ==
  IF ~file.exists THEN <<>>
  ELSE IF ~IsJson(file.text) THEN <<>>
  ELSE json_load(file.text)

\* No file at the path, and a file with a text in it
Missing == [exists |-> FALSE, text |-> <<>>]
OnDisk(text) == [exists |-> TRUE, text |-> text]

NotWriting == [pc |-> "idle"]

WriteIdle ==
  /\ disk = Missing
  /\ save = NotWriting
  /\ loaded = <<>>

InitWrite ==
  /\ disk \in {Missing} \cup {OnDisk(json_dump(data)) : data \in Contents}
  /\ save = NotWriting
  /\ loaded = <<>>

\* save_json, "with open(path, 'w') as f": the file is there and empty
SaveOpen ==
  /\ save.pc = "idle"
  /\ \E by \in {"generator", "editor"}, data \in Contents :
       save' = [pc |-> "writing", by |-> by, data |-> data,
                old |-> load_json_FromDisk(disk)]
  /\ disk' = OnDisk(<<>>)
  /\ UNCHANGED loaded

\* save_json, json.dump: the buffer is flushed, more of the text is in the
\* file
SaveFlush ==
  /\ save.pc = "writing"
  /\ \E n \in (Len(disk.text) + 1)..(Len(json_dump(save.data)) - 1) :
       disk' = OnDisk(SubSeq(json_dump(save.data), 1, n))
  /\ UNCHANGED <<save, loaded>>

\* save_json, the end of the with block: the file is closed with the whole
\* text in it
SaveClose ==
  /\ save.pc = "writing"
  /\ disk' = OnDisk(json_dump(save.data))
  /\ save' = NotWriting
  /\ UNCHANGED loaded

\* load_json of the editing service, at any moment
LoadJson ==
  /\ loaded' = <<[data |-> load_json_FromDisk(disk), during |-> save]>>
  /\ UNCHANGED <<disk, save>>

NextWrite == SaveOpen \/ SaveFlush \/ SaveClose \/ LoadJson

(***************************************************************************)
(* Claims about the catalog file                                           *)
(***************************************************************************)

\* C19: a load of a catalog file that runs while the file is being written
\* returns the complete list the file held before the write or the complete
\* list that is being written.
C19_OldOrNew ==
  (loaded # <<>> /\ loaded[1].during.pc = "writing")
    => loaded[1].data \in {loaded[1].during.old, loaded[1].during.data}

(***************************************************************************)
(* Scrape runs in which fetches fail                                       *)
(***************************************************************************)

MaxRuns == 2

MaxFailing == 2

\* The wiki pages a run of every category fetches.
FetchTargets(page) ==
  {page.title} \cup Range(GANGS)
  \cup UNION { {DISTRICTS[i][1]} \cup Range(SubdistrictLinks(DISTRICTS[i][1])) :
               i \in DOMAIN DISTRICTS }

NotRun == ran = <<>>

RunsDone == IF ran = <<>> THEN 0 ELSE ran[1].n

\* python scraper.py --category <category> [--all], the fetches of the pages
\* in failing failing.  ran is the history of the run.
RunScraperFailing(category, all, failing) ==
  /\ RunsDone < MaxRuns
  /\ tree' = ScraperMain(tree, wiki, category, all, failing)
  /\ ran' = <<[category |-> category, all |-> all, failing |-> failing,
               n |-> RunsDone + 1]>>
  /\ UNCHANGED <<wiki, catalogs, edits, rerun>>

RunFailing ==
  \E category \in ScraperCategories, all \in BOOLEAN,
     failing \in { f \in SUBSET FetchTargets(wiki) : Cardinality(f) <= MaxFailing } :
    RunScraperFailing(category, all, failing)

(***************************************************************************)
(* Claims about scrape runs with failures                                  *)
(***************************************************************************)

\* The wiki pages an entity directory is scraped from: a character's, a
\* gang's or a district's page; for a sub-district the district's page, which
\* names it, and its own.
PagesOf(path, page) ==
  IF IsBelow(path, CharactersBase) THEN {page.title}
  ELSE IF IsBelow(path, GangsBase)
    THEN { g \in Range(GANGS) : NameSafe(g) = path[Len(GangsBase) + 1] }
  ELSE LET district == { i \in DOMAIN DISTRICTS :
                           NameSafe(DISTRICTS[i][2]) = path[Len(DistrictsBase) + 1] }
       IN { DISTRICTS[i][1] : i \in district }
          \cup (IF Len(path) > Len(DistrictsBase) + 1
                  THEN UNION { { s \in Range(SubdistrictLinks(DISTRICTS[i][1])) :
                                   NameSafe(s) = path[Len(path)] } : i \in district }
                  ELSE {})

\* Directory path is the same in the trees t1 and t2: absent from both, or in
\* both with the same info.json and files.
SameDir(t1, t2, path) ==
  /\ path \in DOMAIN t1 <=> path \in DOMAIN t2
  /\ path \in DOMAIN t1 => t1[path] = t2[path]

\* The outcome after of run r on the tree before: the directories of the
\* entities whose pages fail are as before, every other directory is as the
\* run without failures leaves it.
RunOutcome(before, after, page, r) ==
  LET unfailing == ScraperMain(before, page, r.category, r.all, {})
  IN \A path \in DOMAIN before \cup DOMAIN after \cup DOMAIN unfailing :
       IF PagesOf(path, page) \cap r.failing # {}
         THEN SameDir(after, before, path)
         ELSE SameDir(after, unfailing, path)

\* C20: a scrape run in which the fetches of any set of pages fail comes to
\* its end; every entity whose pages are fetched is scraped and reconciled as
\* in the run without failures, and the directory of a failed entity is left
\* as it was, no info.json written for it.
C20_FailuresAreSkipped ==
  [][ran' # <<>> => RunOutcome(tree, tree', wiki, ran'[1])]_vars

\* A run over the districts in which Watson's page has failed: Westbrook, the
\* next of the list, is there and Watson is not.
C20_Witness ==
  /\ ran # <<>>
  /\ ran[1].category = "districts"
  /\ ran[1].failing = {"Watson (2077)"}
  /\ DistrictsBase \o <<"westbrook">> \in DOMAIN tree
  /\ tree[DistrictsBase \o <<"westbrook">>].info # <<>>
  /\ DistrictsBase \o <<"watson">> \notin DOMAIN tree

(***************************************************************************)
(* Claims about corrupt persisted state                                    *)
(***************************************************************************)

\* C21: an info.json or a catalog file that cannot be read as the expected
\* JSON (unparseable, or of another shape) is taken as absent: the generator
\* run and the scraper run that meet it raise no exception.
C21_CorruptIsAbsent ==
  [][/\ Generate => \A c \in Categories : ~Raised(Scan(c, tree, catalogs))
     /\ \A category \in ScraperCategories, all \in BOOLEAN :
          RunScraper(category, all) => ~ScraperRaises(tree, wiki, category, all, {})]_vars

\* With unparseable files only, C21 holds: they are read as {}.
C21_UnparseableIsAbsent ==
  [][(\A path \in DOMAIN tree : tree[path].info # <<WrongShape>>)
       => /\ Generate => \A c \in Categories : ~Raised(Scan(c, tree, catalogs))
          /\ \A category \in ScraperCategories, all \in BOOLEAN :
               RunScraper(category, all)
                 => ~ScraperRaises(tree, wiki, category, all, {})]_vars

(***************************************************************************)
(* Claims about the editing service and the generator                      *)
(***************************************************************************)

\* The non-protected fields of a catalog item that hold what an update
\* wrote.
EditedFields(item) ==
  { f \in (DOMAIN item \cap DOMAIN PayloadValues) \ protected_fields :
      item[f] = PayloadValues[f] }

\* C22: a value the editing service's update wrote to a non-protected field
\* of a catalog item is still the value of that field in the entity's item
\* after the next generator run.
C22_EditSurvivesGeneration ==
  [][(Generate /\ reply.status = 200) =>
       \A c \in Categories :
         \A i \in DOMAIN load_json(catalogs, c) :
           load_json(catalogs, c)[i] = reply.item =>
             \E j \in DOMAIN load_json(catalogs', c) :
               LET item == load_json(catalogs', c)[j]
               IN /\ item.directory = reply.item.directory
                  /\ \A f \in EditedFields(reply.item) :
                       f \in DOMAIN item /\ item[f] = reply.item[f]]_vars

(***************************************************************************)
(* Claims about gender detection and the infobox                           *)
(***************************************************************************)

\* The value of an infobox field indicates Female, or Male, by one of the
\* keywords of _parse_infobox and _detect_gender.
IndicatesFemale(value) ==
  LET text == Lower(value)
  IN \/ Contains(text, <<"f", "e", "m", "a", "l", "e">>)
     \/ Contains(text, <<"w", "o", "m", "a", "n">>)
     \/ Contains(text, <<"f", "e", "m", "i", "n", "i", "n", "o">>)

IndicatesMale(value) ==
  LET text == Lower(value)
  IN /\ ~IndicatesFemale(value)
     /\ \/ Contains(text, <<"m", "a", "l", "e">>)
        \/ Contains(text, <<"m", "a", "n">>)
        \/ Contains(text, <<"m", "a", "s", "c", "u", "l", "i", "n", "o">>)

\* The genders the gender and sex fields of the infobox indicate.
FieldGenders(infobox) ==
  { g \in {"Male", "Female"} :
      \E i \in DOMAIN infobox.rows :
        /\ infobox.rows[i].source \in Range(GenderSources)
        /\ IF g = "Female" THEN IndicatesFemale(infobox.rows[i].value)
           ELSE IndicatesMale(infobox.rows[i].value) }

\* C23: when the gender and sex fields of a page's infobox indicate one
\* gender, Male or Female, by any of the detector's keywords, that gender is
\* the detected one, also for a title that is or overlaps a known name.
C23_StructuredDataWins ==
  (gender # None /\ gpage.infobox.present)
     => \A g \in {"Male", "Female"} : FieldGenders(gpage.infobox) = {g} => gender = g

(***************************************************************************)
(* Claims about the fields reconciliation keeps                            *)
(***************************************************************************)

\* The directory the wiki's character page is reconciled into.
WikiCharacterDir == CharacterDir(scrape_character(wiki))

\* C24: when a character's info.json exists with a non-empty affiliation and
\* the scrape candidate carries another non-empty affiliation, the info.json
\* written back has the affiliation it had.
C24_AffiliationKept ==
  [][ScrapesCharacter =>
       LET existing_info == ReadInfo(tree, WikiCharacterDir)
           scraped == scrape_character(wiki).affiliation
       IN (/\ Truthy(Get(existing_info, "affiliation"))
           /\ Truthy(scraped)
           /\ scraped # existing_info.affiliation)
            => tree'[WikiCharacterDir].info[1].affiliation = existing_info.affiliation]_vars

\* The scrape candidate a run reconciles into an entity directory.
Candidate(path) ==
  IF IsBelow(path, CharactersBase) THEN scrape_character(wiki)
  ELSE IF IsBelow(path, GangsBase)
    THEN scrape_gang(CHOOSE g \in Range(GANGS) : NameSafe(g) = path[Len(path)])
  ELSE IF Len(path) = Len(DistrictsBase) + 1
    THEN LET i == CHOOSE i \in DOMAIN DISTRICTS : NameSafe(DISTRICTS[i][2]) = path[Len(path)]
         IN scrape_district(DISTRICTS[i][1], DISTRICTS[i][2])
  ELSE LET s == CHOOSE s \in UNION { Range(SubdistrictLinks(DISTRICTS[i][1])) :
                                       i \in DOMAIN DISTRICTS } :
                  NameSafe(s) = path[Len(path)]
       IN scrape_subdistrict(s, s)

\* The directories a scraper run has a candidate for.
CandidateDirs ==
  { path \in DOMAIN tree : IsBelow(path, CharactersBase) => path = WikiCharacterDir }

\* The text fields of the info.json files.
TextFields ==
  {"affiliation", "description", "occupation", "status", "founder", "leader", "hq",
   "territory", "members_count", "danger_level"}

\* C25: for every field, when the scrape candidate has no value for it and
\* the entity's info.json has a non-empty one, the info.json a scraper run
\* writes back keeps that value.
C25_ExistingValuesKept ==
  [][ScraperStep =>
       \A path \in CandidateDirs :
         \A field \in TextFields :
           (/\ Truthy(Get(ReadInfo(tree, path), field))
            /\ ~Truthy(Get(Candidate(path), field)))
             => Get(ReadInfo(tree', path), field) = ReadInfo(tree, path)[field]]_vars

(***************************************************************************)
(* Image discovery: _extract_images, _scrape_gallery, _extract_page_images *)
(***************************************************************************)

\* s[:n]
Take(s, n) == IF Len(s) <= n THEN s ELSE SubSeq(s, 1, n)

\* any(skip in name for skip in [...])
ContainsAny(name, skips) == \E skip \in skips : Contains(name, skip)

\* An img element of a page: its data-image-key and its src (or data-src),
\* <<>> for an element with neither.
Img(key, src) == [key |-> key, src |-> src]

\* _extract_images, the titles parse_data['images'] lists, from the i-th on:
\* a title with a skip word is left out; the URL _get_image_info gives
\* (<<>> for None) is kept when it is not in images yet.
RECURSIVE ApiImagesFrom(_, _, _)
ApiImagesFrom(image_titles, i, images) ==
  IF i > Len(image_titles) THEN images
  ELSE LET img == image_titles[i]
       IN IF ContainsAny(Lower(img.title), {<<"i", "c", "o", "n">>, <<"l", "o", "g", "o">>, <<"b", "u", "t", "t", "o", "n">>, <<"a", "r", "r", "o", "w">>, <<"w", "i", "k", "i">>, <<"t", "r", "a", "n", "s", "p", "a", "r", "e", "n", "t">>})
            THEN ApiImagesFrom(image_titles, i + 1, images)
          ELSE IF img.url # <<>> /\ ~IsIn(img.url[1], images)
            THEN ApiImagesFrom(image_titles, i + 1, Append(images, img.url[1]))
          ELSE ApiImagesFrom(image_titles, i + 1, images)

\* _extract_images, the gallery elements of the soup from the i-th on
RECURSIVE GalleryImagesFrom(_, _, _)
GalleryImagesFrom(imgs, i, images) ==
  IF i > Len(imgs) THEN images
  ELSE LET cleaned == clean_image_url("characters", imgs[i].src)
       IN IF cleaned # <<>> /\ ~IsIn(cleaned[1], images)
            THEN GalleryImagesFrom(imgs, i + 1, Append(images, cleaned[1]))
          ELSE GalleryImagesFrom(imgs, i + 1, images)

\* CyberpunkScraper._extract_images: the infobox image, the first eight
\* images of the API, the first five gallery elements; five URLs at most.
extract_images(doc) ==
  LET cleaned == IF doc.infobox = <<>> THEN <<>>
                 ELSE clean_image_url("characters", doc.infobox[1])
      images1 == IF cleaned # <<>> THEN <<cleaned[1]>> ELSE <<>>
      images2 == ApiImagesFrom(Take(doc.api, 8), 1, images1)
      images3 == GalleryImagesFrom(Take(doc.imgs, 5), 1, images2)
  IN Take(images3, 5)

\* _scrape_gallery: 'logo' in img_name or 'decal' in img_name
Decorative(img_name) ==
  Contains(img_name, <<"l", "o", "g", "o">>) \/ Contains(img_name, <<"d", "e", "c", "a", "l">>)

\* _scrape_gallery, the loop over all_imgs from the i-th on.  images is the
\* list the function returns in the end; the loop tests "cleaned in images"
\* and appends to other_images and logo_images.
RECURSIVE GalleryLoop(_, _, _, _)
GalleryLoop(all_imgs, i, images, lists) ==
  IF i > Len(all_imgs) THEN lists
  ELSE LET img_name == Lower(all_imgs[i].key)
           cleaned == clean_image_url("gangs", all_imgs[i].src)
       IN IF cleaned = <<>> \/ IsIn(cleaned[1], images)
            THEN GalleryLoop(all_imgs, i + 1, images, lists)
          ELSE IF Decorative(img_name)
            THEN GalleryLoop(all_imgs, i + 1, images,
                             [lists EXCEPT !.logo_images = Append(@, cleaned[1])])
          ELSE GalleryLoop(all_imgs, i + 1, images,
                           [lists EXCEPT !.other_images = Append(@, cleaned[1])])

\* _scrape_gallery: images = other_images[:6], then logo_images up to eight
GalleryResult(lists) ==
  LET images == Take(lists.other_images, 6)
      remaining == 8 - Len(images)
  IN IF remaining > 0 THEN images \o Take(lists.logo_images, remaining) ELSE images

\* GangsScraper._scrape_gallery on the img[data-image-key] elements of the
\* gallery page
scrape_gallery(all_imgs) ==
  GalleryResult(GalleryLoop(all_imgs, 1, <<>>,
                            [other_images |-> <<>>, logo_images |-> <<>>]))

\* _extract_page_images, the loop from the i-th element on
RECURSIVE PageImagesFrom(_, _, _)
PageImagesFrom(all_imgs, i, images) ==
  IF i > Len(all_imgs) THEN images
  ELSE LET cleaned == clean_image_url("districts", all_imgs[i].src)
       IN IF ContainsAny(Lower(all_imgs[i].key), {<<"i", "c", "o", "n">>, <<"l", "o", "g", "o">>, <<"b", "u", "t", "t", "o", "n">>, <<"n", "a", "v">>, <<"f", "o", "o", "t", "e", "r">>, <<"h", "e", "a", "d", "e", "r">>})
            THEN PageImagesFrom(all_imgs, i + 1, images)
          ELSE IF cleaned # <<>> /\ ~IsIn(cleaned[1], images)
            THEN PageImagesFrom(all_imgs, i + 1, Append(images, cleaned[1]))
          ELSE PageImagesFrom(all_imgs, i + 1, images)

\* DistrictsScraper._extract_page_images: ten URLs at most
extract_page_images(all_imgs) == Take(PageImagesFrom(all_imgs, 1, <<>>), 10)

\* Image discovery of a scraper on a document.
DiscoverImages(scraper, doc) ==
  CASE scraper = "characters" -> extract_images(doc)
    [] scraper = "gangs" -> scrape_gallery(doc.imgs)
    [] scraper = "districts" -> extract_page_images(doc.imgs)

\* Bounds: elements of a generated document, and non-decorative images of a
\* generated gallery.
MaxImgs == 2

MaxArts == 8

\* The src attributes of the generated elements: two of them are the same
\* image, one has no image extension, one is missing.
ImgSrcs ==
  { Spell("//h/") \o Spell("a.png"),
    Spell("//h/") \o Spell("a.png") \o Spell("?cb=") \o Spell("1"),
    Spell("//h/") \o Spell("i.JPG"),
    Spell("//h/"),
    <<>> }

ImgKeys == {<<"A", "r", "t">>, <<"L", "o", "g", "o">>, <<"i", "c", "o", "n">>}

ImgElements == { Img(k, s) : k \in ImgKeys, s \in ImgSrcs }

ShortImgs == UNION { [1..n -> ImgElements] : n \in 0..MaxImgs }

\* The n-th of the distinct non-decorative images of a long gallery.
Art(n) == Img(<<"A", "r", "t">>, Spell("//h/") \o <<Digits[n + 1]>> \o Spell("a.png"))

\* Galleries of n non-decorative images with a logo after the k-th of them.
LongGalleries ==
  { <<>> \o [i \in 1..(n + 1) |->
               IF i <= k THEN Art(i)
               ELSE IF i = k + 1 THEN Img(<<"L", "o", "g", "o">>, Spell("//h/") \o Spell("i.JPG"))
               ELSE Art(i - 1)] :
      n \in 0..MaxArts, k \in 0..MaxArts }

\* What the API lists for a character page: a title and the URL
\* _get_image_info finds for it, <<>> when it finds none.
ApiImages ==
  { [title |-> t, url |-> u] :
      t \in {<<"A", "r", "t", ".", "p", "n", "g">>, <<"I", "c", "o", "n", ".", "p", "n", "g">>},
      u \in {<<>>, <<Spell("https:") \o Spell("//h/") \o Spell("a.png")>>,
             <<Spell("https:") \o Spell("//h/") \o Spell("i.JPG")>>} }

\* The documents image discovery runs on.
Documents ==
  { [infobox |-> b, api |-> a, imgs |-> g] :
      b \in {<<>>, <<Spell("//h/") \o Spell("a.png")>>},
      a \in {<<>>} \cup { <<x>> : x \in ApiImages },
      g \in ShortImgs }
  \cup { [infobox |-> <<>>, api |-> <<>>, imgs |-> g] : g \in LongGalleries }

DiscoveryIdle ==
  discovery = [scraper |-> "characters",
               doc |-> [infobox |-> <<>>, api |-> <<>>, imgs |-> <<>>], out |-> <<>>]

InitDiscovery ==
  discovery \in { [scraper |-> s, doc |-> d, out |-> <<>>] :
                    s \in Scrapers, d \in Documents }

\* One run of a scraper's image discovery.
Discover ==
  /\ discovery.out = <<>>
  /\ discovery' = [discovery EXCEPT
                     !.out = <<DiscoverImages(discovery.scraper, discovery.doc)>>]

(***************************************************************************)
(* Claims about image discovery                                            *)
(***************************************************************************)

\* The URLs of a document in the order discovery comes to them: the infobox
\* image, the images of the API, the img elements; each canonicalized as the
\* scraper does, those under a name the scraper passes over left out.
CleanedSrcs(scraper, imgs, skips) ==
  LET cleaned(i) == IF ContainsAny(Lower(imgs[i].key), skips) THEN <<>>
                    ELSE clean_image_url(scraper, imgs[i].src)
      RECURSIVE From(_)
      From(i) == IF i > Len(imgs) THEN <<>> ELSE cleaned(i) \o From(i + 1)
  IN From(1)

ApiUrls(api, skips) ==
  LET url(i) == IF ContainsAny(Lower(api[i].title), skips) THEN <<>> ELSE api[i].url
      RECURSIVE From(_)
      From(i) == IF i > Len(api) THEN <<>> ELSE url(i) \o From(i + 1)
  IN From(1)

Discovered(scraper, doc) ==
  CASE scraper = "characters" ->
         CleanedSrcs(scraper, <<>> \o [i \in 1..Len(doc.infobox) |-> Img(<<>>, doc.infobox[i])], {})
         \o ApiUrls(doc.api, {<<"i", "c", "o", "n">>, <<"l", "o", "g", "o">>, <<"b", "u", "t", "t", "o", "n">>, <<"a", "r", "r", "o", "w">>, <<"w", "i", "k", "i">>, <<"t", "r", "a", "n", "s", "p", "a", "r", "e", "n", "t">>})
         \o CleanedSrcs(scraper, doc.imgs, {})
    [] scraper = "gangs" -> CleanedSrcs(scraper, doc.imgs, {})
    [] scraper = "districts" ->
         CleanedSrcs(scraper, doc.imgs, {<<"i", "c", "o", "n">>, <<"l", "o", "g", "o">>, <<"b", "u", "t", "t", "o", "n">>, <<"n", "a", "v">>, <<"f", "o", "o", "t", "e", "r">>, <<"h", "e", "a", "d", "e", "r">>})

\* The first position of url in urls.
FirstIndex(urls, url) ==
  CHOOSE i \in DOMAIN urls : urls[i] = url /\ \A j \in 1..(i - 1) : urls[j] # url

NoUrlTwice(images) == \A i, j \in DOMAIN images : i # j => images[i] # images[j]

InDiscoveryOrder(images, urls) ==
  /\ \A i \in DOMAIN images : IsIn(images[i], urls)
  /\ \A i, j \in DOMAIN images :
       (i < j /\ images[i] # images[j])
         => FirstIndex(urls, images[i]) < FirstIndex(urls, images[j])

\* C26: the list image discovery returns for a character, a gang gallery or
\* a district has no URL twice, and its URLs are in the order in which the
\* document first shows them.
C26_NoDuplicatesInOrder ==
  discovery.out # <<>> =>
    /\ NoUrlTwice(discovery.out[1])
    /\ InDiscoveryOrder(discovery.out[1],
                        Discovered(discovery.scraper, discovery.doc))

\* The URLs of the gallery's elements with a decorative name, and of those
\* with another name.
GalleryUrls(imgs, decorative) ==
  { clean_image_url("gangs", imgs[i].src)[1] :
      i \in { j \in DOMAIN imgs :
                /\ clean_image_url("gangs", imgs[j].src) # <<>>
                /\ Decorative(Lower(imgs[j].key)) = decorative } }

\* C27: in the gallery result no decorative image comes before a
\* non-decorative one, and when the result has a decorative image it has
\* every non-decorative image of the gallery.
C27_DecorativeOnlyBackfill ==
  (discovery.out # <<>> /\ discovery.scraper = "gangs") =>
    LET images == discovery.out[1]
        logos == GalleryUrls(discovery.doc.imgs, TRUE)
        others == GalleryUrls(discovery.doc.imgs, FALSE)
    IN /\ \A i, j \in DOMAIN images :
            (images[i] \in logos \ others /\ images[j] \in others \ logos) => j < i
       /\ (\E i \in DOMAIN images : images[i] \in logos \ others)
            => \A url \in others : IsIn(url, images)

(***************************************************************************)
(* Claims about the prior catalog                                          *)
(***************************************************************************)

\* The folder and every folder below it has an info.json.
AllRecorded(t, folder) ==
  /\ folder \in DOMAIN t
  /\ \A p \in DOMAIN t : (p = folder \/ IsBelow(p, folder)) => t[p].info # <<>>

\* The items of with that belong to a folder with an info.json are the items
\* the scan computes without a prior catalog.
SameWithoutPrior(t, with, without, folders) ==
  Raised(with) \/
    \A i \in DOMAIN with : AllRecorded(t, folders[i]) => with[i] = without[i]

\* C28: the generator takes no field of an entity that has an info.json from
\* the prior catalog: what it computes for the entity is what it computes
\* with no prior catalog at all.
C28_PriorCatalogOnlyWithoutRecord ==
  [][Generate =>
       LET with == GeneratorScans(tree, catalogs)
           without == GeneratorScans(tree, NoCatalogs)
       IN /\ SameWithoutPrior(tree, with.characters, without.characters,
                              CharacterFoldersFrom(tree, 1))
          /\ SameWithoutPrior(tree, with.gangs, without.gangs,
                              SortedFolders(tree, GangsBase))
          /\ SameWithoutPrior(tree, with.districts, without.districts,
                              SortedFolders(tree, DistrictsBase))]_vars

(***************************************************************************)
(* Claims about skipping existing characters                               *)
(***************************************************************************)

\* The directories of the characters with what they hold.
CharacterTree(t) ==
  [p \in { q \in DOMAIN t : IsBelow(q, CharactersBase) } |-> t[p]]

\* C29: a scrape run of the characters without --all leaves a character that
\* exists when the run starts as it is: the run changes no info.json and no
\* directory of the characters, and processes the wiki's character only when
\* it does not exist yet.  Said of a step: one that changes the characters'
\* directories while the wiki's character exists is no such run.
C29_ExistingIsSkipped ==
  [][(CharacterExists(tree, wiki.title) /\ CharacterTree(tree') # CharacterTree(tree))
       => \A category \in {"characters", "all"} : ~RunScraper(category, FALSE)]_vars

\* A run of every category without --all has skipped the wiki's character:
\* the character exists, and not in the directory the run would have put it.
C29_Witness ==
  /\ rerun.phase = 1
  /\ ~rerun.all
  /\ rerun.page = <<wiki>>
  /\ CharacterExists(tree, wiki.title)
  /\ CharacterDir(scrape_character(wiki)) \notin DOMAIN tree

(***************************************************************************)
(* The editing service under concurrent requests                           *)
(***************************************************************************)

\* The server of app.run handles each request in a thread of its own: the
\* requests in flight at the same time.
Requests == {1, 2}

\* What the concurrent clients send.
ConcurrentPayloads ==
  {[k \in fields |-> PayloadValues[k]] : fields \in {{"description"}, {"notes"}}}

\* A request that has not arrived yet.
Waiting ==
  [pc |-> "waiting", category |-> "", item_id |-> 0, updates |-> EmptyDict,
   data |-> <<>>, status |-> 0]

RequestsIdle == requests = [r \in Requests |-> Waiting]

\* update_one down to the loop over the payload: the category is looked up,
\* the catalog is loaded, the item is found and changed in the thread's own
\* copy of the list.
UpdateLoad(r, category, item_id, updates) ==
  /\ requests[r].pc = "waiting"
  /\ LET request == [Waiting EXCEPT !.category = category, !.item_id = item_id,
                                    !.updates = updates]
         data == load_json(catalogs, category)
         item_index == ItemIndex(data, item_id)
     IN IF category \notin CATEGORIES
          THEN requests' = [requests EXCEPT ![r] =
                              [request EXCEPT !.pc = "done", !.status = 404]]
        ELSE IF item_index = 0
          THEN requests' = [requests EXCEPT ![r] =
                              [request EXCEPT !.pc = "done", !.status = 404]]
        ELSE requests' = [requests EXCEPT ![r] =
                            [request EXCEPT
                               !.pc = "loaded",
                               !.data = [data EXCEPT ![item_index] =
                                           UpdatedItem(@, updates)]]]
  /\ UNCHANGED <<wiki, tree, catalogs, edits, rerun>>

\* update_one from save_json on: the thread's list is written over the
\* catalog file and the item is returned.
UpdateSave(r) ==
  /\ requests[r].pc = "loaded"
  /\ catalogs' = [catalogs EXCEPT ![requests[r].category] = <<requests[r].data>>]
  /\ requests' = [requests EXCEPT ![r] = [@ EXCEPT !.pc = "done", !.status = 200]]
  /\ UNCHANGED <<wiki, tree, edits, rerun>>

\* A step of one of the requests in flight.
ConcurrentUpdate ==
  \E r \in Requests :
    \/ \E category \in CATEGORIES \cup {"affiliations"}, item_id \in ItemIds,
          updates \in ConcurrentPayloads :
         UpdateLoad(r, category, item_id, updates)
    \/ UpdateSave(r)

\* The catalogs of a first pipeline run.
InitConcurrent ==
  /\ wiki = CHOOSE page \in CharacterPages : page.occupation # None
  /\ tree = ScraperMain(<<>>, wiki, "all", FALSE, {})
  /\ catalogs = GeneratorMain(tree, NoCatalogs)
  /\ edits = 0
  /\ rerun = NoRerun
  /\ RequestsIdle

\* The catalog shows what the request changed.
ChangesKept(files, request) ==
  LET data == load_json(files, request.category)
      item_index == ItemIndex(data, request.item_id)
  IN /\ item_index # 0
     /\ \A key \in DOMAIN request.updates \ protected_fields :
          Get(data[item_index], key) = request.updates[key]

\* C30: when two requests on one category, for two items or for different
\* fields of one item, have both completed, the catalog shows the changes of
\* both.
C30_NoLostUpdate ==
  \A r1, r2 \in Requests :
    ( /\ r1 # r2
      /\ requests[r1].pc = "done" /\ requests[r1].status = 200
      /\ requests[r2].pc = "done" /\ requests[r2].status = 200
      /\ requests[r1].category = requests[r2].category
      /\ \/ requests[r1].item_id # requests[r2].item_id
         \/ DOMAIN requests[r1].updates \cap DOMAIN requests[r2].updates = {} )
    => ChangesKept(catalogs, requests[r1]) /\ ChangesKept(catalogs, requests[r2])

(***************************************************************************)
(* Specifications                                                          *)
(***************************************************************************)

GenderIdle ==
  /\ gpage = NoPage
  /\ gender = None

\* The wiki and an empty images tree, for the specifications that leave the
\* pipeline alone.
PipelineUnused ==
  /\ wiki = CHOOSE page \in CharacterPages : page.occupation # None
  /\ PipelineIdle

InitFetch ==
  FetchIdle /\ GenderIdle /\ PipelineUnused /\ CanonIdle /\ EditorIdle /\ NotScanned /\ WriteIdle /\ NotRun /\ DiscoveryIdle
  /\ RequestsIdle

NextFetch ==
  /\ NextFetchCall
  /\ UNCHANGED genderVars
  /\ UNCHANGED pipeVars
  /\ UNCHANGED canon
  /\ UNCHANGED editorVars
  /\ UNCHANGED scanned
  /\ UNCHANGED writeVars
  /\ UNCHANGED ran
  /\ UNCHANGED discovery
  /\ UNCHANGED requests

SpecFetch == InitFetch /\ [][NextFetch]_vars

InitGenderSpec ==
  InitGender /\ FetchIdle /\ PipelineUnused /\ CanonIdle /\ EditorIdle /\ NotScanned /\ WriteIdle /\ NotRun /\ DiscoveryIdle
  /\ RequestsIdle

NextGender ==
  /\ DetectGenderOfPage
  /\ UNCHANGED fetchVars
  /\ UNCHANGED pipeVars
  /\ UNCHANGED canon
  /\ UNCHANGED editorVars
  /\ UNCHANGED scanned
  /\ UNCHANGED writeVars
  /\ UNCHANGED ran
  /\ UNCHANGED discovery
  /\ UNCHANGED requests

SpecGender == InitGenderSpec /\ [][NextGender]_vars

\* The pipeline on a changing wiki, with the history of its runs.
Init ==
  /\ wiki \in CharacterPages
  /\ PipelineIdle
  /\ FetchIdle
  /\ GenderIdle
  /\ CanonIdle
  /\ EditorIdle
  /\ NotScanned /\ WriteIdle /\ NotRun /\ DiscoveryIdle
  /\ RequestsIdle

NextPipeline ==
  \/ WikiChange /\ rerun' = NoRerun
  \/ \E category \in ScraperCategories, all \in BOOLEAN :
       RunScraper(category, all) /\ rerun' = RerunAfterScrape(category, all)
  \/ Generate /\ rerun' = RerunAfterGenerate(catalogs')

Next ==
  /\ NextPipeline
  /\ UNCHANGED fetchVars
  /\ UNCHANGED genderVars
  /\ UNCHANGED canon
  /\ UNCHANGED editorVars
  /\ UNCHANGED scanned
  /\ UNCHANGED writeVars
  /\ UNCHANGED ran
  /\ UNCHANGED discovery
  /\ UNCHANGED requests

Spec == Init /\ [][Next]_vars

\* The pipeline on an unchanging wiki, with manual changes to the images tree.
InitOverride ==
  PipelineUnused /\ FetchIdle /\ GenderIdle /\ CanonIdle /\ EditorIdle /\ NotScanned /\ WriteIdle /\ NotRun /\ DiscoveryIdle
  /\ RequestsIdle

NextOverride ==
  /\ \/ /\ \E category \in ScraperCategories, all \in BOOLEAN : RunScraper(category, all)
        /\ scanned' = <<>>
     \/ Generate /\ scanned' = <<GeneratorScans(tree, catalogs)>>
     \/ ManualEdit /\ scanned' = <<>>
  /\ UNCHANGED rerun
  /\ UNCHANGED fetchVars
  /\ UNCHANGED genderVars
  /\ UNCHANGED canon
  /\ UNCHANGED editorVars
  /\ UNCHANGED writeVars
  /\ UNCHANGED ran
  /\ UNCHANGED discovery
  /\ UNCHANGED requests

SpecOverride == InitOverride /\ [][NextOverride]_vars

\* The canonicalizers, on the URLs made of the pieces.
InitUrl ==
  InitCanon /\ FetchIdle /\ GenderIdle /\ PipelineUnused /\ EditorIdle /\ NotScanned /\ WriteIdle /\ NotRun /\ DiscoveryIdle
  /\ RequestsIdle

NextUrl ==
  /\ CleanImageUrl
  /\ UNCHANGED scanned
  /\ UNCHANGED writeVars
  /\ UNCHANGED ran
  /\ UNCHANGED discovery
  /\ UNCHANGED requests
  /\ UNCHANGED fetchVars
  /\ UNCHANGED genderVars
  /\ UNCHANGED pipeVars
  /\ UNCHANGED editorVars

SpecUrl == InitUrl /\ [][NextUrl]_vars

\* The editing service on the catalogs the pipeline generates.
InitEditor ==
  PipelineUnused /\ FetchIdle /\ GenderIdle /\ CanonIdle /\ EditorIdle /\ NotScanned /\ WriteIdle /\ NotRun /\ DiscoveryIdle
  /\ RequestsIdle

NextEditor ==
  /\ \/ /\ \E category \in ScraperCategories : RunScraper(category, FALSE)
        /\ UNCHANGED editorVars
     \/ Generate /\ UNCHANGED editorVars
     \/ UpdateOne
  /\ UNCHANGED rerun
  /\ UNCHANGED scanned
  /\ UNCHANGED writeVars
  /\ UNCHANGED ran
  /\ UNCHANGED discovery
  /\ UNCHANGED requests
  /\ UNCHANGED fetchVars
  /\ UNCHANGED genderVars
  /\ UNCHANGED canon

SpecEditor == InitEditor /\ [][NextEditor]_vars

\* One catalog file, its writers and a reader.
InitWriteSpec ==
  /\ InitWrite
  /\ PipelineUnused /\ FetchIdle /\ GenderIdle /\ CanonIdle /\ EditorIdle /\ NotScanned
  /\ NotRun /\ DiscoveryIdle
  /\ RequestsIdle

NextWriteSpec ==
  /\ NextWrite
  /\ UNCHANGED fetchVars
  /\ UNCHANGED genderVars
  /\ UNCHANGED pipeVars
  /\ UNCHANGED canon
  /\ UNCHANGED editorVars
  /\ UNCHANGED scanned
  /\ UNCHANGED ran
  /\ UNCHANGED discovery
  /\ UNCHANGED requests

SpecWrite == InitWriteSpec /\ [][NextWriteSpec]_vars

\* Scrape runs with failing fetches, from the empty images tree.
InitFailures ==
  PipelineUnused /\ FetchIdle /\ GenderIdle /\ CanonIdle /\ EditorIdle /\ NotScanned /\ WriteIdle /\ NotRun /\ DiscoveryIdle
  /\ RequestsIdle

NextFailures ==
  /\ RunFailing
  /\ UNCHANGED fetchVars
  /\ UNCHANGED genderVars
  /\ UNCHANGED canon
  /\ UNCHANGED editorVars
  /\ UNCHANGED scanned
  /\ UNCHANGED writeVars
  /\ UNCHANGED discovery
  /\ UNCHANGED requests

SpecFailures == InitFailures /\ [][NextFailures]_vars

\* Scraper and generator runs on persisted state that gets corrupted.
InitCorrupt ==
  PipelineUnused /\ FetchIdle /\ GenderIdle /\ CanonIdle /\ EditorIdle /\ NotScanned /\ WriteIdle /\ NotRun /\ DiscoveryIdle
  /\ RequestsIdle

NextCorrupt ==
  /\ \/ /\ \E category \in ScraperCategories, all \in BOOLEAN : RunScraper(category, all)
        /\ scanned' = <<>>
     \/ Generate /\ scanned' = <<GeneratorScans(tree, catalogs)>>
     \/ Corruption /\ scanned' = <<>>
  /\ UNCHANGED rerun
  /\ UNCHANGED fetchVars
  /\ UNCHANGED genderVars
  /\ UNCHANGED canon
  /\ UNCHANGED editorVars
  /\ UNCHANGED writeVars
  /\ UNCHANGED ran
  /\ UNCHANGED discovery
  /\ UNCHANGED requests

SpecCorrupt == InitCorrupt /\ [][NextCorrupt]_vars

\* Image discovery on the generated documents.
InitImages ==
  /\ InitDiscovery
  /\ PipelineUnused /\ FetchIdle /\ GenderIdle /\ CanonIdle /\ EditorIdle /\ NotScanned
  /\ WriteIdle /\ NotRun /\ RequestsIdle

NextImages ==
  /\ Discover
  /\ UNCHANGED requests
  /\ UNCHANGED fetchVars
  /\ UNCHANGED genderVars
  /\ UNCHANGED pipeVars
  /\ UNCHANGED canon
  /\ UNCHANGED editorVars
  /\ UNCHANGED scanned
  /\ UNCHANGED writeVars
  /\ UNCHANGED ran

SpecImages == InitImages /\ [][NextImages]_vars

\* Two concurrent requests to the editing service on generated catalogs.
InitConcurrentSpec ==
  /\ InitConcurrent
  /\ FetchIdle /\ GenderIdle /\ CanonIdle /\ EditorIdle /\ NotScanned /\ WriteIdle
  /\ NotRun /\ DiscoveryIdle

NextConcurrent ==
  /\ ConcurrentUpdate
  /\ UNCHANGED fetchVars
  /\ UNCHANGED genderVars
  /\ UNCHANGED canon
  /\ UNCHANGED editorVars
  /\ UNCHANGED scanned
  /\ UNCHANGED writeVars
  /\ UNCHANGED ran
  /\ UNCHANGED discovery

SpecConcurrent == InitConcurrentSpec /\ [][NextConcurrent]_vars

====
